---- MODULE Spec2Model ----
(***************************************************************************)
(* Model of the g-ai-trade live control loop: the AutoTrader loop task     *)
(* (app/auto_trader.py), its fee gate (app/ai/fee_protection.py), the      *)
(* start/stop endpoints that own the process-global trader                 *)
(* (app/main.py) and the AIForceTradingBot loop (app/trading_bot.py).      *)
(*                                                                         *)
(* Units.  Time is in seconds.  Fee rates are in per-mille (0.001 = 1).    *)
(* Percentages compared with pnl_pct are in tenths of a percent            *)
(* (1.0 % = 10).  Confidence is in percent (0.7 = 70).  Money amounts that *)
(* the code computes with a division are kept as exact fractions: every    *)
(* comparison is multiplied out, so no rounding is introduced.             *)
(***************************************************************************)
EXTENDS Integers, Sequences, FiniteSets, TLC

(***************************************************************************)
(* Bounds of the model.                                                    *)
(***************************************************************************)
MaxTraders == 2          \* AutoTrader objects constructed in one run
MaxClockSteps == 6       \* sleep intervals followed while one AutoTrader exists
MaxRestartClockSteps == 1 \* sleep intervals followed once a second one exists
MaxOpens == 3            \* BUY orders filled in one run
MaxBotLoops == 2         \* AIForceTradingBot loop tasks alive at once
MaxDailyTrades == 2      \* orders an AIForceTradingBot fills in one day
MaxDays == 1             \* midnights that pass in one run
MaxActivityLog == 3      \* entries the activity deque holds (100 in the code)
MaxAppends == 6          \* entries appended to one activity log in one run
MaxFills == 3            \* orders one ExchangeSimulator fills in one run
MaxBars == 3             \* rows of the historical data of a backtest
MaxWindow == 2           \* bars get_latest_bars is asked for (100 in the code)
MaxPortCalls == 3        \* fetch_* calls made to one MarketDataProxy
MaxPortTime == 40        \* seconds one MarketDataProxy is followed for
MaxStopUpdates == 3      \* update_stop calls on one AdaptiveStopLoss
MaxPaperOrders == 4      \* orders placed on one PaperTradingEngine

(***************************************************************************)
(* Program constants.                                                      *)
(***************************************************************************)
interval_seconds == 300
TAKER_FEE == 1
MIN_PROFIT_MULTIPLE == 3
MAX_TRADES_PER_HOUR == 2
MAX_TRADES_PER_DAY == 10
MIN_HOLD_TIME_MINUTES == 30
TP_PCT_DEFAULT == 10
SL_PCT_DEFAULT == 5
AI_SELL_CONFIDENCE == 70
MIN_CONFIDENCE == 70
BUDGET == 10000
POSITION_SIZE_RATIO_PCT == 95
BOT_MIN_CONFIDENCE == 60
BOT_MAX_PROFIT_PERCENT == 6
BOT_MAX_LOSS_PERCENT == 4

HOUR_SECONDS == 3600
DAY_SECONDS == 86400

\* auto_trader_instance = None
NoInstance == 0
Traders == 1..MaxTraders

\* Close prices the OHLCV fetch may return.
Prices == {1000, 1009, 1020}

\* The recommendations AdvancedAITradingEngine.analyze can return, reduced to
\* the two fields the loop reads: BUY carries 0.64..0.95, SELL 0.70..0.95,
\* HOLD 0.5 (or 0.4) and HALT 0.0.
Analyses ==
    { [action |-> "BUY", confidence |-> 65],
      [action |-> "BUY", confidence |-> 90],
      [action |-> "SELL", confidence |-> 90],
      [action |-> "HALT", confidence |-> 0] }

VARIABLES
    now,                  \* wall clock (datetime.utcnow), seconds
    auto_trader_instance, \* main.py global: None or the current AutoTrader
    pc,                   \* per AutoTrader: where its loop task stands
    is_running,           \* AutoTrader.is_running
    current_position,     \* AutoTrader.current_position
    local,                \* per AutoTrader: locals of the cycle in flight
    wake,                 \* per AutoTrader: when its asyncio.sleep ends
    fee_protection,       \* per AutoTrader: its FeeProtectionManager
    logged,               \* the activity entries the last step appended, and to whose log
    trades,               \* the trade store: Trade rows, indexed by id; the field
                          \* sold is history: the exchange filled the row's SELL
    held,                 \* exchange: BUY fills not yet matched by a SELL fill
    opens,                \* history: number of BUY fills
    stop_time,            \* history: per AutoTrader, time of its first stop()
    last_check_time,      \* AutoTrader.last_check_time
    bot,                  \* the fields of the global AIForceTradingBot
    bot_pc,               \* per _trading_loop task: where it stands
    bot_stopped,          \* history: the loop tasks that were running at a stop()
    today,                \* datetime.now().date(), in days
    trader,               \* one AutoTrader object: is_running and activity_log
    appended,             \* history: number of entries ever appended to trader's log
    snapshot,             \* the last get_activity_log call: its limit, what it returned
    analysis_input,       \* what the last call of analyze was given and met
    recommendation,       \* << >>, or << the dict that call returned >>
    exchange,             \* one ExchangeSimulator: cash, positions, fill_history
    executed,             \* its last execute_order call: the order, the price
                          \* and what it returned (<< >>: None, or << the fill >>)
    data,                 \* the historical data both runs are given: one bar per row
    engine,               \* per run: one BacktestingEngine and where its run() stands
    proxy,                \* one MarketDataProxy: _cache and _cooldown_until
    proxy_now,            \* time.time() as the proxy reads it, seconds
    fetched,              \* the last fetch_* call of the proxy and how it ended
    signalled_at,         \* history: when the exchange last signalled a rate limit
    port_calls,           \* history: number of fetch_* calls made
    adaptive_stop,        \* one AdaptiveStopLoss of a BUY position: its fields
    stop_info,            \* << >>, or << what the last update_stop returned, and for which price >>
    stop_updates,         \* history: number of update_stop calls
    sizing,               \* the last calculate_position_size call: sizer, arguments, << result >>
    paper,                \* one PaperTradingEngine: its fields
    placed,               \* its last place_market_order call: << >>, or << success, order >>
    quoted                \* << >>, or << the last get_breakeven_price call, and the
                          \* gate's answer at a current price >>

vars == << now, auto_trader_instance, pc, is_running, current_position,
           local, wake, fee_protection, logged, trades, held, opens,
           stop_time, last_check_time, bot, bot_pc, bot_stopped, today, trader, appended,
           snapshot, analysis_input, recommendation, exchange, executed,
           data, engine,
           proxy, proxy_now, fetched, signalled_at, port_calls,
           adaptive_stop, stop_info, stop_updates, sizing,
           paper, placed,
           quoted >>

traderVars == << auto_trader_instance, pc, is_running, current_position,
                 local, wake, fee_protection, logged, trades, held, opens,
                 stop_time, last_check_time >>

botVars == << bot, bot_pc, bot_stopped, today >>

objectVars == << trader, appended, snapshot >>

analyzeVars == << analysis_input, recommendation >>

simVars == << exchange, executed >>

btVars == << data, engine >>

proxyVars == << proxy, proxy_now, fetched, signalled_at, port_calls >>

riskVars == << adaptive_stop, stop_info, stop_updates, sizing >>

paperVars == << paper, placed >>

feeVars == << quoted >>

\* what the steps of each part leave alone
notTraderVars == << botVars, objectVars, analyzeVars, simVars, btVars, proxyVars, riskVars, paperVars, feeVars >>
notBotVars == << now, traderVars, objectVars, analyzeVars, simVars, btVars, proxyVars, riskVars, paperVars, feeVars >>
notObjectVars == << now, traderVars, botVars, analyzeVars, simVars, btVars, proxyVars, riskVars, paperVars, feeVars >>
notAnalyzeVars == << now, traderVars, botVars, objectVars, simVars, btVars, proxyVars, riskVars, paperVars, feeVars >>
notSimVars == << now, traderVars, botVars, objectVars, analyzeVars, btVars, proxyVars, riskVars, paperVars, feeVars >>
notBtVars == << now, traderVars, botVars, objectVars, analyzeVars, simVars, proxyVars, riskVars, paperVars, feeVars >>
notProxyVars == << now, traderVars, botVars, objectVars, analyzeVars, simVars, btVars, riskVars, paperVars, feeVars >>
notRiskVars == << now, traderVars, botVars, objectVars, analyzeVars, simVars, btVars, proxyVars, paperVars, feeVars >>
notPaperVars == << now, traderVars, botVars, objectVars, analyzeVars, simVars, btVars, proxyVars, riskVars, feeVars >>
notFeeVars == << now, traderVars, botVars, objectVars, analyzeVars, simVars, btVars, proxyVars, riskVars, paperVars >>

(***************************************************************************)
(* FeeProtectionManager (app/ai/fee_protection.py).  fp is the record of   *)
(* one manager's fields.  A position is (entry_price, quantity) with       *)
(* quantity = q.num / q.den; position_size_usd = entry_price * quantity.   *)
(* The three money operators return the amount multiplied by               *)
(* 1000 * q.den, which is positive, so signs and comparisons are kept.     *)
(***************************************************************************)
NewFeeProtection ==
    [ taker_fee |-> TAKER_FEE,
      min_profit_multiple |-> MIN_PROFIT_MULTIPLE,
      max_trades_per_hour |-> MAX_TRADES_PER_HOUR,
      max_trades_per_day |-> MAX_TRADES_PER_DAY,
      min_hold_time_minutes |-> MIN_HOLD_TIME_MINUTES,
      trade_history |-> << >>,
      position_entry_time |-> -1 ]

\* entry_fee + exit_fee, exit_fee taken on position_size_usd * exit / entry
calculate_total_fees(fp, entry_price, exit_price, q) ==
    fp.taker_fee * q.num * entry_price + fp.taker_fee * q.num * exit_price

\* position_size_usd * (exit - entry) / entry
gross_profit(entry_price, exit_price, q) ==
    1000 * q.num * (exit_price - entry_price)

calculate_net_profit(fp, entry_price, exit_price, q) ==
    gross_profit(entry_price, exit_price, q)
        - calculate_total_fees(fp, entry_price, exit_price, q)

\* Variant: the profit test left out of the gate.
is_profit_above_fee_threshold_untested(fp, entry_price, exit_price, q) == TRUE

is_profit_above_fee_threshold(fp, entry_price, exit_price, q) ==
    calculate_net_profit(fp, entry_price, exit_price, q)
        >= fp.min_profit_multiple * calculate_total_fees(fp, entry_price, exit_price, q)

CountSince(history, t0) ==
    Cardinality({ i \in 1..Len(history) : history[i].timestamp >= t0 })

check_trade_frequency_limits(fp, t) ==
    /\ CountSince(fp.trade_history, t - HOUR_SECONDS) < fp.max_trades_per_hour
    /\ CountSince(fp.trade_history, t - DAY_SECONDS) < fp.max_trades_per_day

check_minimum_hold_time(fp, t) ==
    \/ fp.position_entry_time = -1
    \/ t - fp.position_entry_time >= fp.min_hold_time_minutes * 60

can_open_position(fp, t) == check_trade_frequency_limits(fp, t)

can_close_position(fp, t, entry_price, current_price, q, force_close) ==
    IF ~check_minimum_hold_time(fp, t) /\ ~force_close THEN FALSE
    ELSE IF force_close THEN TRUE
    ELSE is_profit_above_fee_threshold(fp, entry_price, current_price, q)

record_trade(fp, t, trade_type) ==
    [ fp EXCEPT !.trade_history = Append(@, [timestamp |-> t, type |-> trade_type]),
                !.position_entry_time = IF trade_type = "BUY" THEN t ELSE -1 ]

(***************************************************************************)
(* AutoTrader (app/auto_trader.py).                                        *)
(*                                                                         *)
(* pc[t] is the await at which trader t's loop task is suspended:          *)
(*   "none"     no AutoTrader t has been constructed                       *)
(*   "pending"  asyncio.create_task(t.start()) done, start() not yet run   *)
(*   "fetch"    _trading_cycle awaits _fetch_market_data                   *)
(*   "monitor"  _monitor_position awaits ai_engine.analyze                 *)
(*   "entry"    _find_entry awaits ai_engine.analyze                       *)
(*   "sell"     _close_position awaits create_market_sell_order            *)
(*   "buy"      _open_position awaits create_market_buy_order              *)
(*   "sleep"    start() awaits asyncio.sleep(self.interval)                *)
(*   "done"     start() has returned                                       *)
(* Code between two awaits runs without interleaving on the event loop     *)
(* and is one step of the model.                                           *)
(***************************************************************************)
Max2(a, b) == IF a > b THEN a ELSE b

NoQuantity == [num |-> 0, den |-> 1]

NoPosition ==
    [trade_id |-> 0, entry_price |-> 0, quantity |-> NoQuantity, entry_time |-> -1]

\* has_position is "" before _check_position has returned, then "open",
\* "none" or "failed" (its except branch); analysis is what _find_entry
\* hands to _open_position
NoLocal ==
    [price |-> 0, reason |-> "", force_close |-> FALSE, has_position |-> "",
     analysis |-> << >>]

Entry(message, level) == [message |-> message, level |-> level]

\* What one step appends to a trader's activity_log (_log_activity, in order).
NothingLogged == [by |-> 0, entries |-> << >>]

_log_activity(t, entries) ==
    logged' = IF entries = << >> THEN NothingLogged ELSE [by |-> t, entries |-> entries]

TaskAlive(t) == pc[t] \notin {"none", "done"}
InCycle(t) == pc[t] \in {"fetch", "monitor", "entry", "sell", "buy"}

OpenTrades == { i \in 1..Len(trades) : trades[i].status = "open" }

\* pnl_pct >= pct and pnl_pct <= -pct, pnl_pct = (current - entry) / entry * 100
PnlAtLeast(entry_price, current_price, pct) ==
    (current_price - entry_price) * 1000 >= pct * entry_price
PnlAtMost(entry_price, current_price, pct) ==
    (current_price - entry_price) * 1000 <= pct * entry_price

\* available_budget / current_price, available = budget * position_size_ratio
OrderQuantity(current_price) ==
    [num |-> (BUDGET * POSITION_SIZE_RATIO_PCT) \div 100, den |-> current_price]

\* The cycle is over: _trading_cycle returns and start() awaits the sleep.
EndCycle(t) ==
    /\ pc' = [pc EXCEPT ![t] = "sleep"]
    /\ wake' = [wake EXCEPT ![t] = now + interval_seconds]
    /\ local' = [local EXCEPT ![t] = NoLocal]

\* start(): the while test, then _trading_cycle up to its first await.
BeginCycle(t) ==
    /\ pc' = [pc EXCEPT ![t] = "fetch"]
    /\ UNCHANGED << wake, local >>

\* Variant: the stop loss asks the gate like the other two closes.
_monitor_decision_sl_gated(fp, t, pos, current_price, an) ==
    LET e == pos.entry_price
        q == pos.quantity
        tp == PnlAtLeast(e, current_price, TP_PCT_DEFAULT)
        sl == PnlAtMost(e, current_price, -SL_PCT_DEFAULT)
        ai == an.action = "SELL" /\ an.confidence > AI_SELL_CONFIDENCE
        ok == can_close_position(fp, t, e, current_price, q, FALSE)
    IN  IF tp /\ ok
        THEN [close |-> TRUE, reason |-> "Take Profit", force_close |-> FALSE, log |-> << >>]
        ELSE IF sl /\ ok
        THEN [close |-> TRUE, reason |-> "Stop Loss", force_close |-> TRUE, log |-> << >>]
        ELSE IF ai /\ ok
        THEN [close |-> TRUE, reason |-> "AI Signal", force_close |-> FALSE, log |-> << >>]
        ELSE [close |-> FALSE, reason |-> "", force_close |-> FALSE, log |-> << >>]

\* _monitor_position after analyze has returned: what it does with the position.
_monitor_decision(fp, t, pos, current_price, an) ==
    LET e == pos.entry_price
        q == pos.quantity
        tp == PnlAtLeast(e, current_price, TP_PCT_DEFAULT)
        sl == PnlAtMost(e, current_price, -SL_PCT_DEFAULT)
        ai == an.action = "SELL" /\ an.confidence > AI_SELL_CONFIDENCE
        ok == can_close_position(fp, t, e, current_price, q, FALSE)
        tpLog == IF tp /\ ~ok
                 THEN << Entry("TP triggered but blocked", "warning") >>
                 ELSE << >>
    IN  IF tp /\ ok
        THEN [close |-> TRUE, reason |-> "Take Profit", force_close |-> FALSE, log |-> << >>]
        ELSE IF sl
        THEN [close |-> TRUE, reason |-> "Stop Loss", force_close |-> TRUE, log |-> tpLog]
        ELSE IF ai /\ ok
        THEN [close |-> TRUE, reason |-> "AI Signal", force_close |-> FALSE, log |-> tpLog]
        ELSE IF ai
        THEN [close |-> FALSE, reason |-> "", force_close |-> FALSE,
              log |-> tpLog \o << Entry("AI SELL blocked", "warning") >>]
        ELSE [close |-> FALSE, reason |-> "", force_close |-> FALSE, log |-> tpLog]

\* Variant: the entry ignores config.min_confidence.
_entry_decision_any_confidence(fp, t, an) ==
    IF ~can_open_position(fp, t) THEN "blocked"
    ELSE IF an.action = "BUY" THEN "buy"
    ELSE "wait"

\* _find_entry after analyze has returned: "blocked", "buy" or "wait".
_entry_decision(fp, t, an) ==
    IF ~can_open_position(fp, t) THEN "blocked"
    ELSE IF an.action = "BUY" /\ an.confidence >= MIN_CONFIDENCE THEN "buy"
    ELSE "wait"

(***************************************************************************)
(* The auto-bot endpoints (app/main.py).  A handler body has no await, so  *)
(* it is one step.                                                         *)
(***************************************************************************)
\* How long a run is followed: shorter once a second AutoTrader exists.
Restarted == \E t \in Traders : t > 1 /\ pc[t] # "none"
ClockLimit ==
    IF auto_trader_instance = NoInstance THEN MaxClockSteps * interval_seconds
    ELSE MaxRestartClockSteps * interval_seconds

\* "if auto_trader_instance and auto_trader_instance.is_running"
StartGuard ==
    /\ auto_trader_instance # NoInstance
    /\ is_running[auto_trader_instance]

StartRefused ==
    /\ StartGuard
    /\ logged' = NothingLogged
    /\ UNCHANGED << now, auto_trader_instance, pc, is_running, current_position, local,
                    wake, fee_protection, trades, held, opens, stop_time >>
    /\ UNCHANGED last_check_time
    /\ UNCHANGED notTraderVars

\* An AutoTrader whose task has ended and that the global no longer names
\* is unreachable: nothing of it remains.
Release(f, u, blank) == [f EXCEPT ![u] = blank]

StartAccepted ==
    /\ ~StartGuard
    /\ now <= ClockLimit
    /\ \E t \in Traders :
        LET old == auto_trader_instance
            gone == old # NoInstance /\ pc[old] = "done"
        IN  /\ pc[t] = "none"
            /\ \A u \in Traders : u < t => pc[u] # "none"
            /\ auto_trader_instance' = t
            /\ pc' = [pc EXCEPT ![t] = "pending"]
            /\ _log_activity(t, << Entry("AutoTrader Initialized", "info") >>)
            /\ current_position' =
                  IF gone THEN Release(current_position, old, NoPosition)
                  ELSE current_position
            /\ fee_protection' =
                  IF gone THEN Release(fee_protection, old, NewFeeProtection)
                  ELSE fee_protection
    /\ UNCHANGED << now, is_running, local, wake, trades, held, opens, stop_time >>
    /\ last_check_time' =
          [u \in Traders |->
              IF u = auto_trader_instance' THEN now
              ELSE IF u = auto_trader_instance /\ pc[u] = "done" THEN 0
              ELSE last_check_time[u]]
    /\ UNCHANGED notTraderVars

start_auto_bot == StartRefused \/ StartAccepted

stop_auto_bot ==
    /\ \/ /\ auto_trader_instance = NoInstance
          /\ logged' = NothingLogged
          /\ UNCHANGED << is_running, stop_time >>
       \/ /\ auto_trader_instance # NoInstance
          /\ _log_activity(auto_trader_instance,
                           << Entry("Auto Trading Stopped", "info") >>)
          /\ is_running' = [is_running EXCEPT ![auto_trader_instance] = FALSE]
          /\ stop_time' = [stop_time EXCEPT ![auto_trader_instance] =
                               IF @ = -1 /\ TaskAlive(auto_trader_instance) THEN now ELSE @]
    /\ UNCHANGED << now, auto_trader_instance, pc, current_position, local, wake,
                    fee_protection, trades, held, opens >>
    /\ UNCHANGED last_check_time
    /\ UNCHANGED notTraderVars

(***************************************************************************)
(* The loop task of trader t.                                              *)
(***************************************************************************)
\* asyncio runs what is ready in the order it became ready: a task that
\* create_task has made is ahead of every continuation that becomes ready
\* later, so the other tasks take no step while one waits for its first.
NoTaskPending == \A u \in Traders : pc[u] # "pending"

\* start() from its first line to the first await of the first cycle
start(t) ==
    /\ pc[t] = "pending"
    /\ is_running' = [is_running EXCEPT ![t] = TRUE]
    /\ _log_activity(t, << Entry("Auto Trading Started!", "success"),
                           Entry("Trading Cycle Started", "info") >>)
    /\ BeginCycle(t)
    /\ UNCHANGED << now, auto_trader_instance, current_position,
                    fee_protection, trades, held, opens, stop_time >>
    /\ UNCHANGED last_check_time
    /\ UNCHANGED notTraderVars

\* asyncio.sleep returns; the while test starts the next cycle or ends the task
SleepDone(t) ==
    /\ pc[t] = "sleep"
    /\ NoTaskPending
    /\ now >= wake[t]
    /\ \/ /\ is_running[t]
          /\ _log_activity(t, << Entry("Trading Cycle Started", "info") >>)
          /\ BeginCycle(t)
          /\ UNCHANGED << current_position, fee_protection, stop_time >>
       \/ /\ ~is_running[t]
          /\ pc' = [pc EXCEPT ![t] = "done"]
          /\ wake' = [wake EXCEPT ![t] = 0]
          /\ stop_time' = [stop_time EXCEPT ![t] = -1]
          /\ logged' = NothingLogged
          /\ IF auto_trader_instance = t
             THEN UNCHANGED << current_position, fee_protection >>
             ELSE /\ current_position' = Release(current_position, t, NoPosition)
                  /\ fee_protection' = Release(fee_protection, t, NewFeeProtection)
          /\ UNCHANGED local
    /\ UNCHANGED << now, auto_trader_instance, is_running, trades, held, opens >>
    /\ last_check_time' =
          IF ~is_running[t] /\ auto_trader_instance # t
          THEN Release(last_check_time, t, 0) ELSE last_check_time
    /\ UNCHANGED notTraderVars

\* Variant: the error of a cycle ends the loop.
FetchFailedCrashes(t) ==
    /\ pc[t] = "fetch"
    /\ _log_activity(t, << Entry("Trading cycle error", "error") >>)
    /\ pc' = [pc EXCEPT ![t] = "done"]
    /\ is_running' = [is_running EXCEPT ![t] = FALSE]
    /\ UNCHANGED << now, auto_trader_instance, current_position, local, wake,
                    fee_protection, trades, held, opens, stop_time >>
    /\ UNCHANGED last_check_time
    /\ UNCHANGED notTraderVars

\* Variant: the cycle whose fetch failed counts as a check.
FetchFailedChecked(t) ==
    /\ pc[t] = "fetch"
    /\ _log_activity(t, << Entry("Trading cycle error", "error") >>)
    /\ EndCycle(t)
    /\ last_check_time' = [last_check_time EXCEPT ![t] = now]
    /\ UNCHANGED << now, auto_trader_instance, is_running, current_position,
                    fee_protection, trades, held, opens, stop_time >>
    /\ UNCHANGED notTraderVars

\* _fetch_market_data failed: it returns an empty frame, ohlcv['close'] raises,
\* the except of _trading_cycle logs it and the cycle is over
FetchFailed(t) ==
    /\ pc[t] = "fetch"
    /\ NoTaskPending
    /\ _log_activity(t, << Entry("Trading cycle error", "error") >>)
    /\ EndCycle(t)
    /\ UNCHANGED << now, auto_trader_instance, is_running, current_position,
                    fee_protection, trades, held, opens, stop_time >>
    /\ UNCHANGED last_check_time
    /\ UNCHANGED notTraderVars

\* _check_position: the open row found (0: none), or the query raised (-1)
CheckPositionResults ==
    IF OpenTrades = {} THEN {0, -1} ELSE OpenTrades \cup {-1}

PositionOf(i) ==
    [trade_id |-> i, entry_price |-> trades[i].price, quantity |-> trades[i].amount,
     entry_time |-> trades[i].timestamp]

\* the fetch returned; _check_position; then up to the await of analyze
Fetched(t) ==
    /\ pc[t] = "fetch"
    /\ NoTaskPending
    /\ \E price \in Prices, found \in CheckPositionResults :
        /\ local' = [local EXCEPT ![t].price = price,
                                  ![t].has_position =
                                      IF found = -1 THEN "failed"
                                      ELSE IF found = 0 THEN "none" ELSE "open"]
        /\ current_position' =
              [current_position EXCEPT
                  ![t] = IF found = -1 THEN @
                         ELSE IF found = 0 THEN NoPosition ELSE PositionOf(found)]
        /\ IF found > 0
           THEN /\ pc' = [pc EXCEPT ![t] = "monitor"]
                /\ _log_activity(t, << Entry("Market Data Fetched", "info"),
                                       Entry("Monitoring Position", "info") >>)
           ELSE /\ pc' = [pc EXCEPT ![t] = "entry"]
                /\ _log_activity(t, << Entry("Market Data Fetched", "info"),
                                       Entry("Searching for Entry Signal", "info") >>)
    /\ UNCHANGED << now, auto_trader_instance, is_running, wake,
                    fee_protection, trades, held, opens, stop_time >>
    /\ UNCHANGED last_check_time
    /\ UNCHANGED notTraderVars

\* analyze returned to _monitor_position
Monitored(t) ==
    /\ pc[t] = "monitor"
    /\ NoTaskPending
    /\ \E an \in Analyses :
        LET d == _monitor_decision(fee_protection[t], now, current_position[t],
                                   local[t].price, an)
        IN  IF d.close
            THEN /\ pc' = [pc EXCEPT ![t] = "sell"]
                 /\ local' = [local EXCEPT ![t].reason = d.reason,
                                           ![t].force_close = d.force_close]
                 /\ _log_activity(t, d.log \o << Entry("Closing Position", "info") >>)
                 /\ UNCHANGED wake
            ELSE /\ _log_activity(t, d.log)
                 /\ EndCycle(t)
    /\ UNCHANGED << now, auto_trader_instance, is_running, current_position,
                    fee_protection, trades, held, opens, stop_time >>
    /\ last_check_time' = [last_check_time EXCEPT ![t] = IF pc'[t] = "sleep" THEN now ELSE @]
    /\ UNCHANGED notTraderVars

\* _monitor_position has no handler of its own: what raises in it (reading
\* self.config from a session the store has dropped) reaches the except of
\* _trading_cycle, which logs it, and the cycle is over
MonitorRaised(t) ==
    /\ pc[t] = "monitor"
    /\ NoTaskPending
    /\ _log_activity(t, << Entry("Trading cycle error", "error") >>)
    /\ EndCycle(t)
    /\ UNCHANGED << now, auto_trader_instance, is_running, current_position,
                    fee_protection, trades, held, opens, stop_time >>
    /\ UNCHANGED last_check_time
    /\ UNCHANGED notTraderVars

\* Variant: a SELL that the exchange refused closes the position locally.
SoldForgetsRefused(t) ==
    /\ pc[t] = "sell"
    /\ _log_activity(t, << Entry("Failed to close position", "error") >>)
    /\ current_position' = [current_position EXCEPT ![t] = NoPosition]
    /\ EndCycle(t)
    /\ UNCHANGED << now, auto_trader_instance, is_running, opens, stop_time,
                    held, trades, fee_protection >>
    /\ UNCHANGED last_check_time
    /\ UNCHANGED notTraderVars

\* create_market_sell_order returned or raised; the rest of _close_position
Sold(t) ==
    /\ pc[t] = "sell"
    /\ NoTaskPending
    /\ \/ /\ _log_activity(t, << Entry("Failed to close position", "error") >>)
          /\ UNCHANGED << held, trades, fee_protection, current_position >>
       \/ /\ held > 0
          /\ held' = held - 1
          /\ \/ /\ _log_activity(t, << Entry("Failed to close position", "error") >>)
                /\ trades' = [trades EXCEPT ![current_position[t].trade_id].sold = TRUE]
                /\ UNCHANGED << fee_protection, current_position >>
             \/ /\ trades' = [trades EXCEPT ![current_position[t].trade_id].status =
                                                "completed"]
                /\ fee_protection' =
                      [fee_protection EXCEPT ![t] = record_trade(@, now, "SELL")]
                /\ current_position' = [current_position EXCEPT ![t] = NoPosition]
                /\ _log_activity(t, << Entry("Position Closed",
                       IF calculate_net_profit(fee_protection[t],
                              current_position[t].entry_price, local[t].price,
                              current_position[t].quantity) > 0
                       THEN "success" ELSE "warning") >>)
    /\ EndCycle(t)
    /\ UNCHANGED << now, auto_trader_instance, is_running, opens, stop_time >>
    /\ last_check_time' = [last_check_time EXCEPT ![t] = now]
    /\ UNCHANGED notTraderVars

\* analyze returned to _find_entry (or the on-chain filter vetoed before it)
EntrySearched(t) ==
    /\ pc[t] = "entry"
    /\ NoTaskPending
    /\ \/ /\ EndCycle(t)
          /\ logged' = NothingLogged
       \/ \E an \in Analyses :
            LET d == _entry_decision(fee_protection[t], now, an)
            IN  IF d = "buy"
                THEN /\ pc' = [pc EXCEPT ![t] = "buy"]
                     /\ _log_activity(t, << Entry("Opening Position", "info") >>)
                     /\ local' = [local EXCEPT ![t].analysis = << an >>]
                     /\ UNCHANGED wake
                ELSE /\ _log_activity(t, IF d = "blocked"
                                         THEN << Entry("Entry blocked", "warning") >>
                                         ELSE << >>)
                     /\ EndCycle(t)
    /\ UNCHANGED << now, auto_trader_instance, is_running, current_position,
                    fee_protection, trades, held, opens, stop_time >>
    /\ last_check_time' = [last_check_time EXCEPT ![t] = IF pc'[t] = "sleep" THEN now ELSE @]
    /\ UNCHANGED notTraderVars

\* Variant: a BUY that the exchange refused is recorded in the fee gate.
BoughtRecordsRefused(t) ==
    /\ pc[t] = "buy"
    /\ _log_activity(t, << Entry("Failed to open position", "error") >>)
    /\ fee_protection' = [fee_protection EXCEPT ![t] = record_trade(@, now, "BUY")]
    /\ EndCycle(t)
    /\ UNCHANGED << now, auto_trader_instance, is_running, current_position,
                    stop_time, held, opens, trades >>
    /\ UNCHANGED last_check_time
    /\ UNCHANGED notTraderVars

\* create_market_buy_order returned or raised; the rest of _open_position
Bought(t) ==
    /\ pc[t] = "buy"
    /\ NoTaskPending
    /\ \/ /\ _log_activity(t, << Entry("Failed to open position", "error") >>)
          /\ UNCHANGED << held, opens, trades, fee_protection >>
       \/ /\ opens < MaxOpens
          /\ held' = held + 1
          /\ opens' = opens + 1
          /\ \/ /\ _log_activity(t, << Entry("Failed to open position", "error") >>)
                /\ UNCHANGED << trades, fee_protection >>
             \/ /\ trades' = Append(trades,
                      [price |-> local[t].price, amount |-> OrderQuantity(local[t].price),
                       status |-> "open", timestamp |-> now, sold |-> FALSE])
                /\ fee_protection' =
                      [fee_protection EXCEPT ![t] = record_trade(@, now, "BUY")]
                /\ _log_activity(t, << Entry("Position Opened", "success") >>)
    /\ EndCycle(t)
    /\ UNCHANGED << now, auto_trader_instance, is_running, current_position,
                    stop_time >>
    /\ last_check_time' = [last_check_time EXCEPT ![t] = now]
    /\ UNCHANGED notTraderVars

\* Time passes while no task is ready to run: a created task starts and a
\* sleep that is over returns before the event loop waits again.  The unit
\* of the clock is the sleep interval, against which the awaits of a cycle
\* are short: the clock does not advance while a cycle is in flight.
Runnable(t) == pc[t] = "pending" \/ (pc[t] = "sleep" /\ now >= wake[t])

Tick ==
    /\ now < (IF Restarted THEN MaxRestartClockSteps ELSE MaxClockSteps) * interval_seconds
    /\ \A t \in Traders : ~Runnable(t) /\ ~InCycle(t)
    /\ now' = now + interval_seconds
    /\ logged' = NothingLogged
    /\ UNCHANGED << auto_trader_instance, pc, is_running, current_position, local, wake,
                    fee_protection, trades, held, opens, stop_time >>
    /\ UNCHANGED last_check_time
    /\ UNCHANGED notTraderVars

TraderInit ==
    /\ now = 0
    /\ auto_trader_instance = NoInstance
    /\ pc = [t \in Traders |-> "none"]
    /\ is_running = [t \in Traders |-> FALSE]
    /\ current_position = [t \in Traders |-> NoPosition]
    /\ local = [t \in Traders |-> NoLocal]
    /\ wake = [t \in Traders |-> 0]
    /\ fee_protection = [t \in Traders |-> NewFeeProtection]
    /\ logged = NothingLogged
    /\ trades = << >>
    /\ held = 0
    /\ opens = 0
    /\ stop_time = [t \in Traders |-> -1]
    /\ last_check_time = [t \in Traders |-> 0]

(***************************************************************************)
(* AIForceTradingBot (app/trading_bot.py), the global ai_trading_bot.       *)
(* Balances are in cents: with trade_amount = 0.01 the profit of a round   *)
(* trip, trade_amount * (price - entry_price), is price - entry_price      *)
(* cents.  bot_pc[l] is where loop task l is suspended:                    *)
(*   "none"     no such task (never created, or _trading_loop returned)    *)
(*   "pending"  asyncio.create_task(_trading_loop()) done, not yet run     *)
(*   "analyze"  awaits ai_engine.analyze                                   *)
(*   "sleep"    awaits asyncio.sleep (30 s, or 60 s after an error)        *)
(***************************************************************************)
BotLoops == 1..MaxBotLoops

\* what the account reports as free USDT (-1: no USDT entry)
AccountBalances == {-1, 200}

\* AIDecisionEngine.analyze: the two fields _execute_trading_logic reads
BotDecisions ==
    { [action |-> "BUY", confidence |-> 80],
      [action |-> "SELL", confidence |-> 80],
      [action |-> "BUY", confidence |-> 50] }

NewBot ==
    [ is_running |-> FALSE,
      max_profit_percent |-> BOT_MAX_PROFIT_PERCENT,
      max_loss_percent |-> BOT_MAX_LOSS_PERCENT,
      daily_start_balance |-> 0,
      current_balance |-> 0,
      daily_trades |-> 0,
      last_reset_date |-> 0,
      entry_price |-> 0,
      position_side |-> "None" ]

\* loop task l has taken its first step and has not returned
BotLoopRunning(l) == bot_pc[l] \in {"analyze", "sleep"}

\* a task that create_task has made runs before the other loops go on
NoLoopPending == \A k \in BotLoops : bot_pc[k] # "pending"

_check_daily_reset(b) ==
    IF today > b.last_reset_date
    THEN [b EXCEPT !.daily_start_balance = b.current_balance,
                   !.daily_trades = 0,
                   !.last_reset_date = today]
    ELSE b

_should_stop_trading(b) ==
    /\ b.daily_start_balance # 0
    /\ \/ (b.current_balance - b.daily_start_balance) * 100
              >= b.max_profit_percent * b.daily_start_balance
       \/ (b.current_balance - b.daily_start_balance) * 100
              <= -b.max_loss_percent * b.daily_start_balance

\* AIForceTradingBot.stop()
BotStopped(b) == [b EXCEPT !.is_running = FALSE]

\* AIForceTradingBot.start(), called by POST /api/bot/ai-force/start
start_ai_force_bot ==
    /\ \/ /\ bot.is_running
          /\ UNCHANGED << bot, bot_pc >>
       \/ /\ ~bot.is_running
          /\ \/ /\ bot' = [bot EXCEPT !.is_running = TRUE]      \* get_account raised
                /\ UNCHANGED bot_pc
             \/ \E free \in AccountBalances, l \in BotLoops :
                   /\ bot_pc[l] = "none"
                   /\ \A k \in BotLoops : k < l => bot_pc[k] # "none"
                   /\ bot' = [bot EXCEPT
                                 !.is_running = TRUE,
                                 !.daily_start_balance = IF free = -1 THEN @ ELSE free,
                                 !.current_balance =
                                     IF free = -1 THEN @ ELSE free]
                   /\ bot_pc' = [bot_pc EXCEPT ![l] = "pending"]
    /\ UNCHANGED << bot_stopped, today >>
    /\ UNCHANGED notBotVars

\* AIForceTradingBot.stop(), called by POST /api/bot/ai-force/stop
stop_ai_force_bot ==
    /\ bot' = BotStopped(bot)
    /\ bot_stopped' = bot_stopped \cup { l \in BotLoops : BotLoopRunning(l) }
    /\ UNCHANGED << bot_pc, today >>
    /\ UNCHANGED notBotVars

\* _trading_loop from the while test to the await of analyze: the task has
\* just been started or its sleep has returned
_trading_loop(l) ==
    /\ bot_pc[l] = "pending" \/ (bot_pc[l] = "sleep" /\ NoLoopPending)
    /\ IF ~bot.is_running
       THEN /\ bot_pc' = [bot_pc EXCEPT ![l] = "none"]
            /\ bot_stopped' = bot_stopped \ {l}
            /\ UNCHANGED bot
       ELSE LET b == _check_daily_reset(bot)
            IN  IF _should_stop_trading(b)
                THEN /\ bot' = BotStopped(b)
                     /\ bot_pc' = [bot_pc EXCEPT ![l] = "none"]
                     /\ bot_stopped' =
                           (bot_stopped \cup { k \in BotLoops : BotLoopRunning(k) }) \ {l}
                ELSE /\ bot' = b
                     /\ bot_pc' = [bot_pc EXCEPT ![l] = "analyze"]
                     /\ UNCHANGED bot_stopped
    /\ UNCHANGED today
    /\ UNCHANGED notBotVars

_execute_buy(b, price) ==
    [b EXCEPT !.entry_price = price,
              !.position_side = "BUY",
              !.daily_trades = @ + 1]

_execute_sell(b, price) ==
    [b EXCEPT !.current_balance = IF b.entry_price # 0 THEN @ + (price - b.entry_price)
                                  ELSE @,
              !.entry_price = 0,
              !.position_side = "None",
              !.daily_trades = @ + 1]

\* analyze returned or raised; fetch_ticker; _execute_trading_logic; then the
\* await of the sleep
BotAnalyzed(l) ==
    /\ bot_pc[l] = "analyze"
    /\ NoLoopPending
    /\ bot_pc' = [bot_pc EXCEPT ![l] = "sleep"]
    /\ \/ UNCHANGED bot                                   \* analyze or the ticker raised
       \/ \E decision \in BotDecisions, price \in Prices, filled \in BOOLEAN :
             bot' =
                IF decision.confidence < BOT_MIN_CONFIDENCE THEN bot
                ELSE IF decision.action = "BUY" /\ bot.position_side # "BUY"
                THEN IF filled /\ bot.daily_trades < MaxDailyTrades
                     THEN _execute_buy(bot, price) ELSE bot
                ELSE IF decision.action = "SELL" /\ bot.position_side = "BUY"
                THEN IF filled /\ bot.daily_trades < MaxDailyTrades
                     THEN _execute_sell(bot, price) ELSE bot
                ELSE bot
    /\ UNCHANGED << bot_stopped, today >>
    /\ UNCHANGED notBotVars

\* midnight passes
Midnight ==
    /\ today < MaxDays
    /\ today' = today + 1
    /\ UNCHANGED << bot, bot_pc, bot_stopped >>
    /\ UNCHANGED notBotVars

BotInit ==
    /\ bot = NewBot
    /\ bot_pc = [l \in BotLoops |-> "none"]
    /\ bot_stopped = {}
    /\ today = 0

(***************************************************************************)
(* One AutoTrader object (app/auto_trader.py) apart from its loop: what    *)
(* its methods do to is_running and to activity_log, whoever calls them    *)
(* and in whatever order.  An entry carries, in place of its timestamp,    *)
(* the number of the append that made it.  activity_log is                 *)
(* deque(maxlen=100); the model's deque holds MaxActivityLog entries.      *)
(***************************************************************************)
Stamped(message, level, n) ==
    [timestamp |-> n, message |-> message, level |-> level]

\* Variant: a deque without maxlen.
deque_append_unbounded(d, e) == Append(d, e)

\* deque.append with maxlen: a full deque drops its oldest entry
deque_append(d, e) ==
    IF Len(d) = MaxActivityLog THEN Tail(d) \o << e >> ELSE Append(d, e)

\* self.activity_log.append(activity)
_log_activity_of(tr, message, level, n) ==
    [tr EXCEPT !.activity_log = deque_append(@, Stamped(message, level, n))]

\* what the cycles of the loop append
CycleActivities ==
    { << "Trading Cycle Started", "info" >>, << "Trading cycle error", "error" >> }

\* start() up to its first await
start_called ==
    /\ appended < MaxAppends
    /\ trader' = _log_activity_of([trader EXCEPT !.is_running = TRUE],
                                  "Auto Trading Started!", "success", appended + 1)
    /\ appended' = appended + 1
    /\ UNCHANGED << snapshot, notObjectVars >>

\* a _log_activity call of a cycle
cycle_logged ==
    /\ appended < MaxAppends
    /\ \E a \in CycleActivities :
          trader' = _log_activity_of(trader, a[1], a[2], appended + 1)
    /\ appended' = appended + 1
    /\ UNCHANGED << snapshot, notObjectVars >>

\* stop(): the entry is appended first, then the flag is cleared
stop ==
    /\ appended < MaxAppends
    /\ trader' = [_log_activity_of(trader, "Auto Trading Stopped", "info", appended + 1)
                     EXCEPT !.is_running = FALSE]
    /\ appended' = appended + 1
    /\ UNCHANGED << snapshot, notObjectVars >>

\* a Python slice l[i:]: a negative i counts from the end
slice_from(l, i) ==
    LET first == IF i < 0
                 THEN (IF Len(l) + i < 0 THEN 0 ELSE Len(l) + i)
                 ELSE (IF i > Len(l) THEN Len(l) ELSE i)
    IN  SubSeq(l, first + 1, Len(l))

\* get_activity_log(limit): list(self.activity_log)[-limit:]
get_activity_log(tr, limit) == slice_from(tr.activity_log, -limit)

\* one call of get_activity_log
get_activity_log_called ==
    /\ \E limit \in 0..(MaxActivityLog + 1) :
          snapshot' = << [limit |-> limit, entries |-> get_activity_log(trader, limit)] >>
    /\ UNCHANGED << trader, appended, notObjectVars >>

\* __init__ ends with _log_activity("AutoTrader Initialized")
ObjectInit ==
    /\ trader = [is_running |-> FALSE,
                 activity_log |-> << Stamped("AutoTrader Initialized", "info", 1) >>]
    /\ appended = 1
    /\ snapshot = << >>

(***************************************************************************)
(* AdvancedAITradingEngine.analyze (app/ai/advanced_modules.py), as a      *)
(* function of what its modules report.  Prices are in dollars, scores and *)
(* confidences in hundredths, percentages in percent, fractions of the     *)
(* account in per mille.  None is Python's None; no number of the          *)
(* function is negative.                                                   *)
(***************************************************************************)
None == -1
ACCOUNT_BALANCE == 10000
SL_DISTANCE == 15

AnalysisInputs ==
    [ regime : {"SIDEWAYS", "TRENDING_UP", "TRENDING_DOWN", "UNKNOWN"},
      patterns : {0, 1},              \* len(patterns_detected)
      volume_score : {20, 40, 70, 100},
      current_price : {0, 1000},      \* 0: the frame has no row
      risk : {"ok", "raises"},        \* get_dynamic_levels
      raises : {"none", "regime", "performance"},  \* the module that raises
      position_fraction : {0, 20},    \* the sizer's fraction before its floor
      mtf : {"NEUTRAL", "STRONG_BULLISH"} ]  \* mtf_result's alignment

NoInput ==
    [regime |-> "UNKNOWN", patterns |-> 0, volume_score |-> 40, current_price |-> 0,
     risk |-> "ok", raises |-> "none", position_fraction |-> 0, mtf |-> "NEUTRAL"]

\* RiskManager.get_dynamic_levels: the take profit is twice the stop
\* distance; stop_loss_pct and take_profit_pct are in per mille of the price
get_dynamic_levels(i) ==
    [stop_loss_price |-> i.current_price - SL_DISTANCE,
     take_profit_price |-> i.current_price + 2 * SL_DISTANCE,
     stop_loss_pct |-> (SL_DISTANCE * 1000) \div i.current_price,
     take_profit_pct |-> (2 * SL_DISTANCE * 1000) \div i.current_price,
     risk_reward_ratio |-> 2]

\* risk_levels_early: the dynamic levels, or 2% / 4% when they raise
risk_levels_early(i) ==
    IF i.risk = "raises"
    THEN [stop_loss_price |-> (i.current_price * 98) \div 100,
          take_profit_price |-> (i.current_price * 104) \div 100,
          stop_loss_pct |-> 20, take_profit_pct |-> 40,
          risk_reward_ratio |-> 2]
    ELSE get_dynamic_levels(i)

regime_obj(i) == [regime |-> i.regime]
volume_obj(i) == [score |-> i.volume_score]
risk_obj(r) ==
    [stop_loss_price |-> r.stop_loss_price, take_profit_price |-> r.take_profit_price,
     stop_loss_pct |-> r.stop_loss_pct, take_profit_pct |-> r.take_profit_pct]
reversal_obj(i) == [patterns_detected |-> i.patterns]

\* the dict of the three early returns
early_exit(i, action, confidence) ==
    LET r == risk_levels_early(i)
    IN  [action |-> action,
         confidence |-> confidence,
         current_price |-> i.current_price,
         stop_loss |-> r.stop_loss_price,
         take_profit |-> r.take_profit_price,
         risk_reward_ratio |-> r.risk_reward_ratio,
         modules |-> [regime |-> regime_obj(i),
                      volume |-> volume_obj(i),
                      risk_levels |-> risk_obj(r),
                      reversal |-> reversal_obj(i),
                      mtf |-> i.mtf]]

\* the dict of the except branch
fallback(i) ==
    LET fallback_risk ==
            [stop_loss_price |-> IF i.current_price > 0
                                 THEN (i.current_price * 98) \div 100 ELSE None,
             take_profit_price |-> IF i.current_price > 0
                                   THEN (i.current_price * 104) \div 100 ELSE None,
             stop_loss_pct |-> 20, take_profit_pct |-> 40]
    IN  [action |-> "HALT",
         confidence |-> 0,
         current_price |-> i.current_price,
         stop_loss |-> fallback_risk.stop_loss_price,
         take_profit |-> fallback_risk.take_profit_price,
         risk_reward_ratio |-> 2,
         position_size_usd |-> ACCOUNT_BALANCE \div 100,
         position_pct |-> 1,
         modules |-> [regime |-> [regime |-> "UNKNOWN"],
                      volume |-> [score |-> 50],
                      risk_levels |-> fallback_risk,
                      reversal |-> [patterns_detected |-> 0]]]

\* steps 5 to 7 and the response
full_decision(i) ==
    LET r == get_dynamic_levels(i)
        volume_adjustment == ((i.volume_score - 50) * 4) \div 10
        mtf_confidence_boost == IF i.mtf = "STRONG_BULLISH" THEN 15 ELSE 0
        confidence ==
            IF i.regime = "TRENDING_UP"
            THEN 70 + volume_adjustment + mtf_confidence_boost
            ELSE IF i.regime = "TRENDING_DOWN"
            THEN 70 + (IF volume_adjustment < 0 THEN -volume_adjustment
                       ELSE volume_adjustment) + mtf_confidence_boost
            ELSE 50
        capped == IF confidence > 95 THEN 95 ELSE IF confidence < 0 THEN 0 ELSE confidence
        fraction == IF i.position_fraction < 5 THEN 5 ELSE i.position_fraction
    IN  [action |-> IF i.regime = "TRENDING_UP" THEN "BUY"
                    ELSE IF i.regime = "TRENDING_DOWN" THEN "SELL" ELSE "HOLD",
         confidence |-> capped,
         current_price |-> i.current_price,
         stop_loss |-> r.stop_loss_price,
         take_profit |-> r.take_profit_price,
         risk_reward_ratio |-> r.risk_reward_ratio,
         position_size_usd |-> (ACCOUNT_BALANCE * fraction) \div 1000,
         position_pct |-> i.position_fraction,
         modules |-> [regime |-> regime_obj(i),
                      volume |-> volume_obj(i),
                      risk_levels |-> risk_obj(r),
                      reversal |-> reversal_obj(i),
                      mtf |-> i.mtf,
                      position_sizing |-> fraction,
                      performance |-> 0]]

\* Variant: the volume score vetoes nothing.
exit_path_no_volume_veto(i) ==
    IF i.current_price = 0 \/ i.raises = "regime" THEN "fallback"
    ELSE IF i.regime = "SIDEWAYS" /\ i.patterns = 0 THEN "halt"
    ELSE IF /\ i.patterns = 0
            /\ ~(i.regime = "TRENDING_UP" /\ i.volume_score >= 50)
            /\ ~(i.regime = "TRENDING_DOWN" /\ i.volume_score <= 50)
    THEN "no_pattern"
    ELSE IF i.risk = "raises" \/ i.raises = "performance" THEN "fallback"
    ELSE "full"

\* which return of analyze the input takes
exit_path(i) ==
    IF i.current_price = 0 \/ i.raises = "regime" THEN "fallback"
    ELSE IF i.regime = "SIDEWAYS" /\ i.patterns = 0 THEN "halt"
    ELSE IF i.volume_score < 35 THEN "volume"
    ELSE IF /\ i.patterns = 0
            /\ ~(i.regime = "TRENDING_UP" /\ i.volume_score >= 50)
            /\ ~(i.regime = "TRENDING_DOWN" /\ i.volume_score <= 50)
    THEN "no_pattern"
    ELSE IF i.risk = "raises" \/ i.raises = "performance" THEN "fallback"
    ELSE "full"

analyze(i) ==
    LET path == exit_path(i)
    IN  IF path = "fallback" THEN fallback(i)
        ELSE IF path = "halt" THEN early_exit(i, "HALT", 0)
        ELSE IF path = "volume" THEN early_exit(i, "HOLD", 50)
        ELSE IF path = "no_pattern" THEN early_exit(i, "HOLD", 40)
        ELSE full_decision(i)

\* one call of analyze
analyze_called ==
    /\ \E i \in AnalysisInputs :
          /\ analysis_input' = i
          /\ recommendation' = << analyze(i) >>
    /\ UNCHANGED notAnalyzeVars

AnalyzeInit ==
    /\ analysis_input = NoInput
    /\ recommendation = << >>

(***************************************************************************)
(* ExchangeSimulator (app/backtesting/backtesting_engine.py).  A price is  *)
(* in dollars, slippage_rate in 1/10000 and fee_rate in 1/1000, so a fill  *)
(* price is in 1/10000 dollar and every amount of money (cash, trade       *)
(* value, commission) in 1/10000000 dollar per unit of quantity.           *)
(***************************************************************************)
initial_capital == 21     \* dollars the exchange is constructed with
fee_rate == 1
slippage_rate == 5

Symbols == {"BTC/USDT", "ETH/USDT"}
SimPrices == {10, 11}
SimQuantities == {1, 2}
Orders == [symbol : Symbols, direction : {"BUY", "SELL"}, quantity : SimQuantities]

NewExchange ==
    [cash |-> initial_capital * 10000 * 1000, positions |-> << >>, fill_history |-> << >>]

\* positions.pop(symbol)
pop(positions, symbol) ==
    [s \in (DOMAIN positions) \ {symbol} |-> positions[s]]

\* the FillEvent of an order at a price: slippage against the order, and
\* the commission on the value traded
fill_for(order, current_price) ==
    LET fill_price == IF order.direction = "BUY"
                      THEN current_price * (10000 + slippage_rate)
                      ELSE current_price * (10000 - slippage_rate)
    IN  [symbol |-> order.symbol, direction |-> order.direction,
         quantity |-> order.quantity, fill_price |-> fill_price,
         commission |-> fill_price * order.quantity * fee_rate]

trade_value(fill) == fill.fill_price * fill.quantity * 1000

\* "return None"
refuse(ex) ==
    [cash |-> ex.cash, positions |-> ex.positions,
     fill_history |-> ex.fill_history, fill |-> << >>]

\* Variant: the proceeds of a SELL are its trade value.
sell_gross(ex, fill) ==
    [cash |-> ex.cash + trade_value(fill),
     positions |-> pop(ex.positions, fill.symbol),
     fill_history |-> Append(ex.fill_history, fill),
     fill |-> << fill >>]

\* the BUY branch once both tests have passed, with the append of the fill
buy(ex, fill) ==
    [cash |-> ex.cash - (trade_value(fill) + fill.commission),
     positions |-> (fill.symbol :> [quantity |-> fill.quantity,
                                    entry_price |-> fill.fill_price])
                   @@ ex.positions,
     fill_history |-> Append(ex.fill_history, fill),
     fill |-> << fill >>]

\* the SELL branch once its test has passed, with the append of the fill
sell(ex, fill) ==
    [cash |-> ex.cash + (trade_value(fill) - fill.commission),
     positions |-> pop(ex.positions, fill.symbol),
     fill_history |-> Append(ex.fill_history, fill),
     fill |-> << fill >>]

\* Variant: a BUY is not refused for a position already held.
execute_order_stacking(ex, order, current_price) ==
    LET fill == fill_for(order, current_price)
    IN  IF order.direction = "BUY"
        THEN IF trade_value(fill) + fill.commission > ex.cash THEN refuse(ex)
             ELSE buy(ex, fill)
        ELSE IF order.symbol \notin DOMAIN ex.positions THEN refuse(ex)
             ELSE sell(ex, fill)

\* execute_order: the exchange after the call, and what the call returns
execute_order(ex, order, current_price) ==
    LET fill == fill_for(order, current_price)
    IN  IF order.direction = "BUY"
        THEN IF order.symbol \in DOMAIN ex.positions THEN refuse(ex)
             ELSE IF trade_value(fill) + fill.commission > ex.cash THEN refuse(ex)
             ELSE buy(ex, fill)
        ELSE IF order.symbol \notin DOMAIN ex.positions THEN refuse(ex)
             ELSE sell(ex, fill)

\* one call of execute_order
order_executed ==
    /\ Len(exchange.fill_history) < MaxFills
    /\ \E order \in Orders, current_price \in SimPrices :
          LET r == execute_order(exchange, order, current_price)
          IN  /\ exchange' = [cash |-> r.cash, positions |-> r.positions,
                              fill_history |-> r.fill_history]
              /\ executed' = [order |-> order, current_price |-> current_price,
                              fill |-> r.fill]
    /\ UNCHANGED notSimVars

SimInit ==
    /\ exchange = NewExchange
    /\ executed = [order |-> [symbol |-> "BTC/USDT", direction |-> "SELL", quantity |-> 1],
                   current_price |-> 10, fill |-> << >>]

(***************************************************************************)
(* BacktestingEngine (app/backtesting/backtesting_engine.py).  Two engines *)
(* are constructed over the same data and configuration; each runs its     *)
(* event loop step by step.  A bar carries its close and what the          *)
(* indicators computed from the bars up to it report; its timestamp is its *)
(* index.  What analyze reads from outside the data (the alignment the     *)
(* multi-timeframe analyzer fetches, the fraction the position sizer       *)
(* derives from the performance tracker's clock-filtered trades) is chosen *)
(* anew at every call.  Quantities are whole units: the quotient of        *)
(* _generate_order is rounded down.  Money is in the simulator's unit.     *)
(***************************************************************************)
Runs == {1, 2}
TP_PERCENT == 5           \* analysis.get('take_profit_percent', 0.5), in 1/10 %
SL_PERCENT == 3           \* analysis.get('stop_loss_percent', 0.3), in 1/10 %
SIGNAL_CONFIDENCE == 60
position_size_percent == 95
BtSymbol == "BTC/USDT"

Bars == [close : SimPrices, regime : {"TRENDING_UP", "TRENDING_DOWN", "SIDEWAYS"}]
DataSets == UNION { [1..n -> Bars] : n \in 1..MaxBars }

NewEngine ==
    [pc |-> "loop", current_index |-> 0, exchange |-> NewExchange,
     portfolio |-> [equity_curve |-> << >>, trades |-> << >>,
                    current_equity |-> initial_capital * 10000 * 1000],
     market_event |-> << >>, historical_bars |-> << >>, signal |-> << >>,
     order |-> << >>, fill |-> << >>, metrics |-> << >>]

NoEngine == [NewEngine EXCEPT !.pc = "new"]

\* what ai_engine.analyze is given on a bar: the frame of the bar, and what
\* it reads from outside the frame
ai_input(bar, mtf, fraction) ==
    [regime |-> bar.regime, patterns |-> 1, volume_score |-> 40,
     current_price |-> bar.close, risk |-> "ok", raises |-> "none",
     position_fraction |-> fraction, mtf |-> mtf]

\* Variant: the strategy asks for a confidence above 0.7.
_calculate_signals_strict(ex, event, analysis) ==
    LET sig(type, strength) ==
            << [timestamp |-> event.timestamp, symbol |-> event.symbol,
                signal_type |-> type, strength |-> strength] >>
    IN  IF event.symbol \in DOMAIN ex.positions
        THEN IF analysis.action = "SELL" /\ analysis.confidence > SIGNAL_CONFIDENCE + 10
             THEN sig("SELL", analysis.confidence) ELSE << >>
        ELSE IF analysis.action = "BUY" /\ analysis.confidence > SIGNAL_CONFIDENCE + 10
             THEN sig("BUY", analysis.confidence) ELSE << >>

\* AIBacktestStrategy._calculate_signals_async: << >> is None
_calculate_signals(ex, event, analysis) ==
    LET sig(strength) == << [timestamp |-> event.timestamp, symbol |-> event.symbol,
                             signal_type |-> IF event.symbol \in DOMAIN ex.positions
                                             THEN "SELL" ELSE "BUY",
                             strength |-> strength] >>
    IN  IF event.symbol \in DOMAIN ex.positions
        THEN LET entry_price == ex.positions[event.symbol].entry_price
                 \* pnl_pct * entry_price, in 1/10 %
                 gain == (event.close * 10000 - entry_price) * 1000
             IN  IF gain >= TP_PERCENT * entry_price THEN sig(90)
                 ELSE IF gain <= -(SL_PERCENT * entry_price) THEN sig(90)
                 ELSE IF analysis.action = "SELL" /\ analysis.confidence > SIGNAL_CONFIDENCE
                 THEN sig(analysis.confidence)
                 ELSE << >>
        ELSE IF analysis.action = "BUY" /\ analysis.confidence > SIGNAL_CONFIDENCE
             THEN sig(analysis.confidence)
             ELSE << >>

\* _generate_order: << >> is None
_generate_order(ex, signal, current_price) ==
    IF signal.signal_type = "BUY"
    THEN << [timestamp |-> signal.timestamp, symbol |-> signal.symbol,
             direction |-> "BUY",
             quantity |-> ((ex.cash \div 100) * position_size_percent)
                              \div (current_price * 10000 * 1000)] >>
    ELSE IF signal.signal_type = "SELL" /\ signal.symbol \in DOMAIN ex.positions
    THEN << [timestamp |-> signal.timestamp, symbol |-> signal.symbol,
             direction |-> "SELL",
             quantity |-> ex.positions[signal.symbol].quantity] >>
    ELSE << >>

\* PortfolioManager.record_trade
portfolio_record_trade(portfolio, timestamp, fill, pnl) ==
    [portfolio EXCEPT !.trades =
        Append(@, [timestamp |-> timestamp, symbol |-> fill.symbol,
                   direction |-> fill.direction, quantity |-> fill.quantity,
                   price |-> fill.fill_price, commission |-> fill.commission,
                   pnl |-> pnl])]

\* ExchangeSimulator.get_total_equity
get_total_equity(ex, current_price) ==
    IF BtSymbol \in DOMAIN ex.positions
    THEN ex.cash + ex.positions[BtSymbol].quantity * current_price * 10000 * 1000
    ELSE ex.cash

\* PortfolioManager.calculate_performance_metrics: << >> is the empty dict
calculate_performance_metrics(portfolio) ==
    IF Len(portfolio.equity_curve) < 2 THEN << >>
    ELSE LET completed == { k \in 1..Len(portfolio.trades) :
                               portfolio.trades[k].pnl # None }
         IN  << [total_return |-> portfolio.current_equity
                                     - initial_capital * 10000 * 1000,
                 total_trades |-> Len(portfolio.trades),
                 completed_rounds |-> Cardinality(completed),
                 win_rate_percent |->
                     IF completed = {} THEN 0
                     ELSE (Cardinality({ k \in completed : portfolio.trades[k].pnl > 0 })
                              * 100) \div Cardinality(completed),
                 final_equity |-> portfolio.current_equity] >>

\* Variant: the strategy is handed every bar of the data.
get_latest_bars_whole(d, current_index, n) ==
    [k \in 1..Len(d) |-> [index |-> k, bar |-> d[k]]]

\* HistoricalDataHandler.get_latest_bars(n): the rows start_idx..end_idx - 1
\* of the frame, each with its index (here from 1)
get_latest_bars(d, current_index, n) ==
    LET end_idx == current_index
        start_idx == Max2(0, end_idx - n)
    IN  [k \in 1..(end_idx - start_idx) |->
            [index |-> start_idx + k, bar |-> d[start_idx + k]]]

\* the two engines are constructed over one DataFrame
engines_constructed ==
    /\ \A r \in Runs : engine[r].pc = "new"
    /\ \E d \in DataSets : data' = d
    /\ engine' = [r \in Runs |-> NewEngine]
    /\ UNCHANGED notBtVars

\* while has_next(): get_next_event(); after the loop, the metrics
market_event_read(r) ==
    LET e == engine[r]
    IN  /\ e.pc = "loop"
        /\ IF e.current_index < Len(data)
           THEN engine' = [engine EXCEPT ![r] =
                    [e EXCEPT !.pc = "signal",
                              !.current_index = @ + 1,
                              !.market_event =
                                  << [timestamp |-> e.current_index + 1,
                                      symbol |-> BtSymbol,
                                      close |-> data[e.current_index + 1].close] >>,
                              !.signal = << >>, !.order = << >>, !.fill = << >>]]
           ELSE engine' = [engine EXCEPT ![r] =
                    [e EXCEPT !.pc = "done",
                              !.metrics = calculate_performance_metrics(e.portfolio)]]
        /\ UNCHANGED << data, notBtVars >>

\* signal = strategy.calculate_signals_sync(market_event, historical_bars)
signal_calculated(r) ==
    LET e == engine[r]
        event == e.market_event[1]
    IN  /\ e.pc = "signal"
        /\ \E mtf \in {"NEUTRAL", "STRONG_BULLISH"}, fraction \in {0, 20} :
              LET historical_bars == get_latest_bars(data, e.current_index, MaxWindow)
                  \* the frame's last row is what the indicators report on
                  analysis == analyze(ai_input(historical_bars[Len(historical_bars)].bar,
                                               mtf, fraction))
                  signal == _calculate_signals(e.exchange, event, analysis)
              IN  engine' = [engine EXCEPT ![r] =
                      [e EXCEPT !.historical_bars = historical_bars,
                                !.signal = signal,
                                !.pc = IF signal # << >> THEN "order" ELSE "equity"]]
        /\ UNCHANGED << data, notBtVars >>

\* order = self._generate_order(signal, current_price)
order_generated(r) ==
    LET e == engine[r]
        order == _generate_order(e.exchange, e.signal[1], e.market_event[1].close)
    IN  /\ e.pc = "order"
        /\ engine' = [engine EXCEPT ![r] =
              [e EXCEPT !.order = order,
                        !.pc = IF order # << >> THEN "execute" ELSE "equity"]]
        /\ UNCHANGED << data, notBtVars >>

\* fill = self.exchange.execute_order(order, current_price)
order_filled(r) ==
    LET e == engine[r]
        x == execute_order(e.exchange, e.order[1], e.market_event[1].close)
    IN  /\ e.pc = "execute"
        /\ engine' = [engine EXCEPT ![r] =
              [e EXCEPT !.exchange = [cash |-> x.cash, positions |-> x.positions,
                                      fill_history |-> x.fill_history],
                        !.fill = x.fill,
                        !.pc = IF x.fill # << >> THEN "record" ELSE "equity"]]
        /\ UNCHANGED << data, notBtVars >>

\* Variant: only the fills that close a position are recorded.
trade_recorded_sells_only(r) ==
    LET e == engine[r]
        fill == e.fill[1]
    IN  /\ e.pc = "record"
        /\ engine' = [engine EXCEPT ![r] =
              [e EXCEPT !.portfolio =
                            IF fill.direction = "SELL"
                            THEN portfolio_record_trade(@, e.order[1].timestamp, fill, 0)
                            ELSE @,
                        !.pc = "equity"]]
        /\ UNCHANGED << data, notBtVars >>

\* self.portfolio.record_trade(fill, pnl): pnl is 0 for a SELL, None for a BUY
trade_recorded(r) ==
    LET e == engine[r]
        fill == e.fill[1]
    IN  /\ e.pc = "record"
        /\ engine' = [engine EXCEPT ![r] =
              [e EXCEPT !.portfolio =
                            portfolio_record_trade(@, e.order[1].timestamp, fill,
                                                   IF fill.direction = "SELL" THEN 0 ELSE None),
                        !.pc = "equity"]]
        /\ UNCHANGED << data, notBtVars >>

\* portfolio.update_equity(market_event.timestamp, equity)
equity_updated(r) ==
    LET e == engine[r]
        equity == get_total_equity(e.exchange, e.market_event[1].close)
    IN  /\ e.pc = "equity"
        /\ engine' = [engine EXCEPT ![r] =
              [e EXCEPT !.portfolio.equity_curve =
                            Append(@, << e.market_event[1].timestamp, equity >>),
                        !.portfolio.current_equity = equity,
                        !.pc = "loop"]]
        /\ UNCHANGED << data, notBtVars >>

BacktestInit ==
    /\ data = << >>
    /\ engine = [r \in Runs |-> NoEngine]

(***************************************************************************)
(* MarketDataProxy (app/binance_client.py).  Time is in seconds.  A cache  *)
(* key is the sequence of the parts _cache_key joins with "|".  What the   *)
(* exchange returns for a request is named by the request (the wrapper and *)
(* its arguments) and the time it was served.  The exchange either answers *)
(* a forwarded call or raises DDoSProtection / RateLimitExceeded.          *)
(***************************************************************************)
COOLDOWN == 30
TICKER_TTL == 5
ORDER_BOOK_TTL == 2
OHLCV_TTL_1M == 30
OHLCV_TTL_DEFAULT == 120
OHLCV_LIMIT == 100
PortTimeSteps == {5, 26}          \* seconds that pass between two calls
Timeframes == {"1m"}
Limits == {None, 5}               \* the limits fetch_order_book is called with

\* Variant: the key is the wrapper's name alone.
_cache_key_by_kind(name, parts) == << name >>

_cache_key(name, parts) == << name >> \o parts

\* _get_cached: the cache after the call and << >> (None) or << value >>
_get_cached(cache, key, t) ==
    IF key \notin DOMAIN cache THEN [cache |-> cache, value |-> << >>]
    ELSE IF t < cache[key].expires
    THEN [cache |-> cache, value |-> << cache[key].value >>]
    ELSE [cache |-> [k \in (DOMAIN cache) \ {key} |-> cache[k]], value |-> << >>]

_set_cache(cache, key, ttl_sec, value, t) ==
    [k \in (DOMAIN cache) \cup {key} |->
        IF k = key THEN [expires |-> t + ttl_sec, value |-> value] ELSE cache[k]]

\* _handle_rate_limit: the cooldown it leaves; the exception is raised again
_handle_rate_limit(cooldown_until, t) ==
    IF cooldown_until > t + COOLDOWN THEN cooldown_until ELSE t + COOLDOWN

\* the body the three wrappers share: the proxy after the call, how the call
\* ended, and whether it reached the exchange
fetch(p, key, request, ttl, t, outcome) ==
    LET first == _get_cached(p.cache, key, t)
        data_ == [request |-> request, at |-> t]
        \* the except branch: _get_cached once more, then _handle_rate_limit
        rate_limited(cache, forwarded) ==
            LET stale == _get_cached(cache, key, t)
            IN  IF stale.value # << >>
                THEN [proxy |-> [p EXCEPT !.cache = stale.cache],
                      result |-> "value", value |-> stale.value,
                      forwarded |-> forwarded]
                ELSE [proxy |-> [cache |-> stale.cache,
                                 cooldown_until |->
                                     _handle_rate_limit(p.cooldown_until, t)],
                      result |-> "rate_limited", value |-> << >>,
                      forwarded |-> forwarded]
    IN  IF first.value # << >>
        THEN [proxy |-> [p EXCEPT !.cache = first.cache],
              result |-> "value", value |-> first.value, forwarded |-> FALSE]
        ELSE IF t < p.cooldown_until           \* _respect_cooldown raises
        THEN rate_limited(first.cache, FALSE)
        ELSE IF outcome = "rate_limited"       \* the exchange raises
        THEN rate_limited(first.cache, TRUE)
        ELSE [proxy |-> [p EXCEPT !.cache = _set_cache(first.cache, key, ttl, data_, t)],
              result |-> "value", value |-> << data_ >>, forwarded |-> TRUE]

\* what one call of a wrapper leaves
Called(key, request, ttl, outcome) ==
    LET r == fetch(proxy, key, request, ttl, proxy_now, outcome)
    IN  /\ proxy' = r.proxy
        /\ fetched' = [key |-> key, request |-> request, ttl |-> ttl, at |-> proxy_now,
                       result |-> r.result, value |-> r.value,
                       forwarded |-> r.forwarded]
        /\ signalled_at' = IF r.forwarded /\ r.result = "rate_limited"
                           THEN proxy_now ELSE signalled_at
        /\ port_calls' = port_calls + 1
        /\ UNCHANGED << proxy_now, notProxyVars >>

fetch_ticker ==
    /\ port_calls < MaxPortCalls
    /\ \E symbol \in Symbols, outcome \in {"ok", "rate_limited"} :
          Called(_cache_key("ticker", << symbol >>), << "ticker", symbol >>,
                 TICKER_TTL, outcome)

fetch_ohlcv ==
    /\ port_calls < MaxPortCalls
    /\ \E symbol \in {BtSymbol}, timeframe \in Timeframes,
          outcome \in {"ok", "rate_limited"} :
          Called(_cache_key("ohlcv", << symbol, timeframe, OHLCV_LIMIT >>),
                 << "ohlcv", symbol, timeframe, OHLCV_LIMIT >>,
                 IF timeframe = "1m" THEN OHLCV_TTL_1M ELSE OHLCV_TTL_DEFAULT, outcome)

fetch_order_book ==
    /\ port_calls < MaxPortCalls
    /\ \E symbol \in {BtSymbol}, limit \in Limits, outcome \in {"ok", "rate_limited"} :
          Called(_cache_key("order_book", << symbol, IF limit = None THEN 0 ELSE limit >>),
                 << "order_book", symbol, limit >>, ORDER_BOOK_TTL, outcome)

\* time passes between two calls
port_time_passed ==
    /\ \E d \in PortTimeSteps :
          /\ proxy_now + d <= MaxPortTime
          /\ proxy_now' = proxy_now + d
    /\ UNCHANGED << proxy, fetched, signalled_at, port_calls, notProxyVars >>

ProxyInit ==
    /\ proxy = [cache |-> << >>, cooldown_until |-> 0]
    /\ proxy_now = 1
    /\ fetched = [key |-> << >>, request |-> << >>, ttl |-> 0, at |-> 0,
                  result |-> "value", value |-> << >>, forwarded |-> FALSE]
    /\ signalled_at = None
    /\ port_calls = 0

(***************************************************************************)
(* AdaptiveStopLoss and PositionSizer (app/ai/risk_management.py).         *)
(* AdaptiveStopLoss: prices, ATR and swing levels are in dollars, stop     *)
(* prices in 1/1000 dollar.  PositionSizer: every quantity is an exact     *)
(* fraction [n, d] with d > 0; the balance is in thousands of dollars.     *)
(***************************************************************************)
ENTRY_PRICE == 100
ATR_MULTIPLIER == 25          \* atr_multiplier = 2.5, in tenths
SWING_FACTOR == 998           \* swing_level * 0.998
MIN_STOP_FACTOR == 970        \* entry_price * 0.97, and the fallback stop

\* update_stop for side = 'BUY': the object after the call and the dict
\* returned.  unusable: the frame makes calculate_atr raise, so the except
\* branch returns the fallback stop
update_stop(s, atr, swing_level, current_price, unusable) ==
    LET extreme_price == Max2(s.extreme_price, current_price)
        atr_stop == extreme_price * 1000 - atr * ATR_MULTIPLIER * 100
        swing_stop == swing_level * SWING_FACTOR
        min_stop == s.entry_price * MIN_STOP_FACTOR
        current_stop == Max2(atr_stop, Max2(swing_stop, min_stop))
    IN  IF unusable
        THEN [self |-> [s EXCEPT !.extreme_price = extreme_price],
              info |-> [stop_loss_price |-> current_price * MIN_STOP_FACTOR,
                        method_used |-> "FALLBACK"]]
        ELSE [self |-> [s EXCEPT !.extreme_price = extreme_price,
                                 !.current_stop = current_stop],
              info |-> [stop_loss_price |-> current_stop,
                        method_used |-> IF current_stop = atr_stop THEN "ATR"
                                        ELSE IF current_stop = swing_stop THEN "SWING"
                                        ELSE "MIN"]]

\* should_exit(current_price) for side = 'BUY'
should_exit(s, current_price) ==
    s.current_stop # None /\ current_price * 1000 <= s.current_stop

\* one call of update_stop while the position is open
update_stop_called ==
    /\ stop_updates < MaxStopUpdates
    /\ stop_info # << >> => ~should_exit(adaptive_stop, stop_info[1].current_price)
    /\ \E atr \in {1, 2, 4}, swing_level \in {95, 97, 99},
          current_price \in {100, 102, 105}, unusable \in BOOLEAN :
          LET r == update_stop(adaptive_stop, atr, swing_level, current_price, unusable)
          IN  /\ adaptive_stop' = r.self
              /\ stop_info' = << [stop_loss_price |-> r.info.stop_loss_price,
                                  method_used |-> r.info.method_used,
                                  current_price |-> current_price] >>
    /\ stop_updates' = stop_updates + 1
    /\ UNCHANGED << sizing, notRiskVars >>

Frac(n, d) == [n |-> n, d |-> d]
FLe(a, b) == a.n * b.d <= b.n * a.d
FMin(a, b) == IF FLe(a, b) THEN a ELSE b
FMax(a, b) == IF FLe(a, b) THEN b ELSE a
FMul(a, b) == Frac(a.n * b.n, a.d * b.d)

SizerArguments ==
    [ account_balance : {0, 1, 10},     \* thousands of dollars
      win_rate : {4, 6},                \* tenths
      avg_win_pct : {0, 3, 6},          \* percent
      avg_loss_pct : {0, 2, 3},         \* percent
      current_volatility : {1, 4},      \* percent
      confidence : {3, 10} ]            \* tenths
MaxRisks == {1, 5, 20, 100}             \* max_risk_per_trade, per mille

\* _minimum_position
_minimum_position(account_balance) ==
    [position_size_usd |-> FMul(Frac(account_balance, 1), Frac(5, 1000)),
     position_pct |-> Frac(5, 10)]

\* calculate_position_size of a PositionSizer(max_risk_per_trade)
calculate_position_size(max_risk_per_trade, a) ==
    LET avg_loss_pct == IF a.avg_loss_pct = 0 THEN 2 ELSE a.avg_loss_pct
        \* (win_rate * b - (1 - win_rate)) / b with b = avg_win_pct / avg_loss_pct
        kelly_fraction == Frac(a.win_rate * a.avg_win_pct - (10 - a.win_rate) * avg_loss_pct,
                               10 * a.avg_win_pct)
        half_kelly == Frac(kelly_fraction.n, 2 * kelly_fraction.d)
        safe_kelly == FMax(Frac(0, 1), FMin(Frac(1, 4), half_kelly))
        volatility_multiplier ==
            FMin(Frac(1, 1), FMax(Frac(3, 10), Frac(2, Max2(a.current_volatility, 1))))
        confidence_multiplier == Frac(Max2(5, a.confidence), 10)
        position_fraction ==
            FMin(FMul(FMul(safe_kelly, volatility_multiplier), confidence_multiplier),
                 Frac(max_risk_per_trade, 1000))
        position_size_usd == FMul(Frac(a.account_balance, 1), position_fraction)
        min_position == FMul(Frac(a.account_balance, 1), Frac(5, 1000))
    IN  IF a.account_balance <= 0 THEN _minimum_position(a.account_balance)
        ELSE IF a.avg_win_pct = 0            \* b = 0: ZeroDivisionError, the except branch
        THEN _minimum_position(a.account_balance)
        ELSE [position_size_usd |-> FMax(min_position, position_size_usd),
              position_pct |-> FMul(position_fraction, Frac(100, 1))]

\* one call of calculate_position_size on a sizer of some configuration
calculate_position_size_called ==
    /\ \E max_risk_per_trade \in MaxRisks, a \in SizerArguments :
          sizing' = [max_risk_per_trade |-> max_risk_per_trade, arguments |-> a,
                     result |-> << calculate_position_size(max_risk_per_trade, a) >>]
    /\ UNCHANGED << adaptive_stop, stop_info, stop_updates, notRiskVars >>

RiskInit ==
    /\ adaptive_stop = [entry_price |-> ENTRY_PRICE, extreme_price |-> ENTRY_PRICE,
                        current_stop |-> None]
    /\ stop_info = << >>
    /\ stop_updates = 0
    /\ sizing = [max_risk_per_trade |-> 20,
                 arguments |-> [account_balance |-> 0, win_rate |-> 4, avg_win_pct |-> 0,
                                avg_loss_pct |-> 0, current_volatility |-> 1,
                                confidence |-> 3],
                 result |-> << >>]

(***************************************************************************)
(* PaperTradingEngine (app/paper_trading.py).  A price is in dollars, a    *)
(* fill price in 1/10000 dollar, a fee rate in 1/1000, and every amount of *)
(* money in 1/10000000 dollar, as for the ExchangeSimulator.  pnl_percent, *)
(* the time stamps and the order id are left out; max_drawdown is in       *)
(* 1/100 percent, rounded down.                                            *)
(***************************************************************************)
initial_balance == 21     \* dollars the engine is constructed with
taker_fee == 1
slippage_bps == 5

NewPaperEngine ==
    [balance |-> [usdt |-> initial_balance * 10000 * 1000, base_asset |-> 0,
                  locked_usdt |-> 0, locked_base |-> 0],
     current_position |-> << >>, orders |-> << >>, trade_history |-> << >>,
     total_trades |-> 0, winning_trades |-> 0, losing_trades |-> 0,
     total_fees_paid |-> 0,
     peak_balance |-> initial_balance * 10000 * 1000, max_drawdown |-> 0]

get_available_balance(e, asset) ==
    IF asset = "USDT" THEN e.balance.usdt - e.balance.locked_usdt
    ELSE e.balance.base_asset - e.balance.locked_base

simulate_slippage(price, side) ==
    IF side = "BUY" THEN price * (10000 + slippage_bps)
    ELSE price * (10000 - slippage_bps)

\* Variant: only the winning trades are counted.
_record_trade_wins_only(e, exit_price, exit_fee) ==
    LET pos == e.current_position[1]
        gross_pnl == (exit_price - pos.entry_price) * pos.quantity * 1000
        total_fees == pos.fees_paid + exit_fee
        net_pnl == gross_pnl - total_fees
    IN  [e EXCEPT !.trade_history =
                      Append(@, [entry_price |-> pos.entry_price,
                                 exit_price |-> exit_price,
                                 quantity |-> pos.quantity, gross_pnl |-> gross_pnl,
                                 fees |-> total_fees, net_pnl |-> net_pnl]),
                  !.total_trades = @ + 1,
                  !.winning_trades = IF net_pnl > 0 THEN @ + 1 ELSE @]

\* _record_trade(exit_price, exit_fee), called with a position held
_record_trade(e, exit_price, exit_fee) ==
    LET pos == e.current_position[1]
        gross_pnl == (exit_price - pos.entry_price) * pos.quantity * 1000
        total_fees == pos.fees_paid + exit_fee
        net_pnl == gross_pnl - total_fees
    IN  [e EXCEPT !.trade_history =
                      Append(@, [entry_price |-> pos.entry_price,
                                 exit_price |-> exit_price,
                                 quantity |-> pos.quantity, gross_pnl |-> gross_pnl,
                                 fees |-> total_fees, net_pnl |-> net_pnl]),
                  !.total_trades = @ + 1,
                  !.winning_trades = IF net_pnl > 0 THEN @ + 1 ELSE @,
                  !.losing_trades = IF net_pnl > 0 THEN @ ELSE @ + 1]

\* _update_metrics: the value is usdt + base_asset, as the code adds them
_update_metrics(e) ==
    LET current_value == e.balance.usdt + e.balance.base_asset * 10000 * 1000
        peak_balance == Max2(e.peak_balance, current_value)
        drawdown == (peak_balance - current_value) \div (peak_balance \div 10000)
    IN  [e EXCEPT !.peak_balance = peak_balance,
                  !.max_drawdown = Max2(@, drawdown)]

\* the two rejecting returns: the order is appended with status REJECTED
rejected(e, order) ==
    [engine |-> [e EXCEPT !.orders = Append(@, [order EXCEPT !.status = "REJECTED"])],
     success |-> FALSE, order |-> [order EXCEPT !.status = "REJECTED"]]

\* the common tail of the two filling branches
filled(e, order, fill_price, fee) ==
    LET done == [order EXCEPT !.status = "FILLED", !.filled_price = fill_price,
                              !.fee = fee]
    IN  [engine |-> _update_metrics([e EXCEPT !.orders = Append(@, done)]),
         success |-> TRUE, order |-> done]

\* "Execute sell"
execute_sell(e, order, fill_price) ==
    LET revenue == order.quantity * fill_price * 1000
        fee == (revenue * taker_fee) \div 1000
        sold == [e EXCEPT !.balance.base_asset = @ - order.quantity,
                          !.balance.usdt = @ + (revenue - fee),
                          !.total_fees_paid = @ + fee]
    IN  filled(IF e.current_position # << >>
               THEN [_record_trade(sold, fill_price, fee) EXCEPT !.current_position = << >>]
               ELSE sold,
               order, fill_price, fee)

\* "Execute buy"
execute_buy(e, order, fill_price) ==
    LET cost == order.quantity * fill_price * 1000
        fee == (cost * taker_fee) \div 1000
    IN  filled([e EXCEPT !.balance.usdt = @ - (cost + fee),
                         !.balance.base_asset = @ + order.quantity,
                         !.total_fees_paid = @ + fee,
                         !.current_position =
                             << [symbol |-> BtSymbol, quantity |-> order.quantity,
                                 entry_price |-> fill_price, total_cost |-> cost,
                                 fees_paid |-> fee] >>],
               order, fill_price, fee)

\* the total cost of a BUY: cost plus fee
buy_total_cost(quantity, fill_price) ==
    quantity * fill_price * 1000 + (quantity * fill_price * 1000 * taker_fee) \div 1000

PaperOrder(side, quantity, current_price) ==
    [symbol |-> BtSymbol, side |-> side, quantity |-> quantity,
     price |-> current_price, status |-> "PENDING", filled_price |-> None, fee |-> 0]

\* Variant: a SELL is filled whatever the base balance.
place_market_order_unchecked_sell(e, side, quantity, current_price) ==
    LET fill_price == simulate_slippage(current_price, side)
        order == PaperOrder(side, quantity, current_price)
    IN  IF side = "BUY"
        THEN IF buy_total_cost(quantity, fill_price) > get_available_balance(e, "USDT")
             THEN rejected(e, order)
             ELSE execute_buy(e, order, fill_price)
        ELSE execute_sell(e, order, fill_price)

\* place_market_order: the engine after the call, success and the order
place_market_order(e, side, quantity, current_price) ==
    LET fill_price == simulate_slippage(current_price, side)
        order == PaperOrder(side, quantity, current_price)
    IN  IF side = "BUY"
        THEN IF buy_total_cost(quantity, fill_price) > get_available_balance(e, "USDT")
             THEN rejected(e, order)
             ELSE execute_buy(e, order, fill_price)
        ELSE IF quantity > get_available_balance(e, "BASE")
             THEN rejected(e, order)
             ELSE execute_sell(e, order, fill_price)

\* get_performance_summary: the counters it reports and its win_rate, a
\* fraction (percent)
get_performance_summary(e) ==
    [total_trades |-> e.total_trades,
     winning_trades |-> e.winning_trades,
     losing_trades |-> e.losing_trades,
     win_rate |-> IF e.total_trades > 0
                  THEN Frac(e.winning_trades * 100, e.total_trades)
                  ELSE Frac(0, 1),
     has_open_position |-> e.current_position # << >>]

\* one call of place_market_order
place_market_order_called ==
    /\ Len(paper.orders) < MaxPaperOrders
    /\ \E side \in {"BUY", "SELL"}, quantity \in {1, 2, 3}, current_price \in SimPrices :
          LET r == place_market_order(paper, side, quantity, current_price)
          IN  /\ paper' = r.engine
              /\ placed' = << r.success, r.order >>
    /\ UNCHANGED notPaperVars

PaperInit ==
    /\ paper = NewPaperEngine
    /\ placed = << >>

(***************************************************************************)
(* FeeProtectionManager.get_breakeven_price against its own close test     *)
(* (app/ai/fee_protection.py).  Prices are in 1/1000 dollar here, fee      *)
(* rates in 1/1000; the gate's operators above are homogeneous in the      *)
(* price, so they are applied to these prices as they are.                 *)
(***************************************************************************)
EntryPrices == {10, 100}          \* dollars
PositionSizes == {1, 10, 95}      \* position_size_usd
TakerFees == {1, 2}
ProfitMultiples == {1, 2, 3}

\* get_breakeven_price(entry_price, position_size_usd), entry_price in dollars
get_breakeven_price(fp, entry_price, position_size_usd) ==
    LET total_fee_rate == fp.taker_fee + fp.taker_fee
    IN  [breakeven_price |-> entry_price * (1000 + total_fee_rate),
         breakeven_pct |-> total_fee_rate,
         min_profitable_price |->
             entry_price * (1000 + total_fee_rate * fp.min_profit_multiple),
         min_profitable_pct |-> total_fee_rate * fp.min_profit_multiple,
         entry_price |-> entry_price * 1000]

\* one call of get_breakeven_price on a manager whose position was entered
\* min_hold_time_minutes ago, and can_close_position(force_close=False) at
\* a current price: the two reported prices, a tenth of a percent and two
\* percent above the entry
get_breakeven_price_called ==
    /\ \E entry_price \in EntryPrices, position_size_usd \in PositionSizes,
          taker_fee_ \in TakerFees, multiple \in ProfitMultiples :
          LET fp == [NewFeeProtection EXCEPT !.taker_fee = taker_fee_,
                                             !.min_profit_multiple = multiple,
                                             !.position_entry_time = 0]
              info == get_breakeven_price(fp, entry_price, position_size_usd)
              t == fp.min_hold_time_minutes * 60
              q == [num |-> position_size_usd, den |-> entry_price]
          IN  \E current_price \in {info.breakeven_price, info.min_profitable_price,
                                    info.min_profitable_price + entry_price,
                                    entry_price * 1020} :
                 quoted' = << [fee_protection |-> fp,
                               position_size_usd |-> position_size_usd,
                               info |-> info,
                               current_price |-> current_price,
                               can_close |-> can_close_position(fp, t, info.entry_price,
                                                                current_price, q, FALSE)] >>
    /\ UNCHANGED notFeeVars

FeeInit == quoted = << >>

Init == TraderInit /\ BotInit /\ ObjectInit /\ AnalyzeInit /\ SimInit /\ BacktestInit /\ ProxyInit /\ RiskInit /\ PaperInit /\ FeeInit

Next ==
    \/ start_auto_bot
    \/ stop_auto_bot
    \/ \E t \in Traders :
          \/ start(t)
          \/ SleepDone(t)
          \/ FetchFailed(t)
          \/ Fetched(t)
          \/ Monitored(t)
          \/ MonitorRaised(t)
          \/ Sold(t)
          \/ EntrySearched(t)
          \/ Bought(t)
    \/ Tick

Spec == Init /\ [][Next]_vars

NextBot ==
    \/ start_ai_force_bot
    \/ stop_ai_force_bot
    \/ \E l \in BotLoops :
          \/ _trading_loop(l)
          \/ BotAnalyzed(l)
    \/ Midnight

SpecBot == Init /\ [][NextBot]_vars

NextObject ==
    \/ start_called
    \/ cycle_logged
    \/ stop
    \/ get_activity_log_called

SpecObject == Init /\ [][NextObject]_vars

NextAnalyze == analyze_called

SpecAnalyze == Init /\ [][NextAnalyze]_vars

NextSim == order_executed

SpecSim == Init /\ [][NextSim]_vars

NextBacktest ==
    \/ engines_constructed
    \/ \E r \in Runs :
          \/ market_event_read(r)
          \/ signal_calculated(r)
          \/ order_generated(r)
          \/ order_filled(r)
          \/ trade_recorded(r)
          \/ equity_updated(r)

SpecBacktest == Init /\ [][NextBacktest]_vars

NextProxy ==
    \/ fetch_ticker
    \/ fetch_ohlcv
    \/ fetch_order_book
    \/ port_time_passed

SpecProxy == Init /\ [][NextProxy]_vars

NextStop == update_stop_called

SpecStop == Init /\ [][NextStop]_vars

NextSizer == calculate_position_size_called

SpecSizer == Init /\ [][NextSizer]_vars

NextPaper == place_market_order_called

SpecPaper == Init /\ [][NextPaper]_vars

NextFee == get_breakeven_price_called

SpecFee == Init /\ [][NextFee]_vars

(***************************************************************************)
(* The claims.                                                             *)
(***************************************************************************)
Logged(t, message, level) ==
    /\ logged.by = t
    /\ \E i \in 1..Len(logged.entries) : logged.entries[i] = Entry(message, level)

\* C1: the control loop holds at most one position: BUY fills not yet sold
\* never exceed one, and the trade store never holds more than one open row.
C1_SinglePosition ==
    /\ held <= 1
    /\ Cardinality(OpenTrades) <= 1

\* C2: at most one loop task of the bot is alive and at most one trading
\* cycle is executing, under any interleaving of start, stop and ticks.
C2_TicksSerialized ==
    /\ Cardinality({ t \in Traders : TaskAlive(t) }) <= 1
    /\ Cardinality({ t \in Traders : InCycle(t) }) <= 1

\* the stop-loss level is reached for the position trader t monitors
StopLossReached(t) ==
    PnlAtMost(current_position[t].entry_price, local[t].price, -SL_PCT_DEFAULT)

\* _monitor_position of trader t comes to its decision in this step
MonitorDecides(t) ==
    /\ pc[t] = "monitor"
    /\ pc'[t] # "monitor"
    /\ ~(logged'.by = t /\ logged'.entries = << Entry("Trading cycle error", "error") >>)

\* C3: when _monitor_position decides with pnl_pct <= -stop_loss_pct and the
\* take profit does not close, it goes on to submit the SELL with reason
\* "Stop Loss" and force_close, whatever the gate's hold time, trade history
\* and profit test say; and can_close_position with force_close = TRUE allows
\* the close in every gate state, for every entry and current price.
C3_StopLossNeverBlocked ==
    /\ [](\A t \in Traders : \A e \in Prices, x \in Prices :
            can_close_position(fee_protection[t], now, e, x, OrderQuantity(e), TRUE))
    /\ [][\A t \in Traders :
            (MonitorDecides(t) /\ StopLossReached(t)
                /\ ~(pc'[t] = "sell" /\ local'[t].reason = "Take Profit"))
            => /\ pc'[t] = "sell"
               /\ local'[t].reason = "Stop Loss"
               /\ local'[t].force_close]_vars

\* C3 witness: a stop-loss SELL is being submitted while the minimum hold
\* time of the gate has not elapsed.
C3_Witness ==
    \E t \in Traders :
        /\ pc[t] = "sell"
        /\ local[t].reason = "Stop Loss"
        /\ local[t].force_close
        /\ ~check_minimum_hold_time(fee_protection[t], now)

\* net_profit >= min_profit_multiple * total_fees for the position trader t
\* monitors, at the price of its cycle
ProfitTestPasses(t) ==
    LET fp == fee_protection[t]
        e == current_position[t].entry_price
        q == current_position[t].quantity
    IN  calculate_net_profit(fp, e, local[t].price, q)
            >= fp.min_profit_multiple * calculate_total_fees(fp, e, local[t].price, q)

\* the gate is asked for a close without force: the take profit is reached,
\* or the stop loss is not and the analysis is a SELL above 0.7
GateAsked(t, an) ==
    LET e == current_position[t].entry_price
    IN  \/ PnlAtLeast(e, local[t].price, TP_PCT_DEFAULT)
        \/ /\ ~PnlAtMost(e, local[t].price, -SL_PCT_DEFAULT)
           /\ an.action = "SELL"
           /\ an.confidence > AI_SELL_CONFIDENCE

\* the step is the one _monitor_position takes on analysis an
MonitorStepOn(t, an) ==
    LET d == _monitor_decision(fee_protection[t], now, current_position[t],
                               local[t].price, an)
    IN  /\ pc'[t] = IF d.close THEN "sell" ELSE "sleep"
        /\ logged'.entries =
              d.log \o (IF d.close THEN << Entry("Closing Position", "info") >> ELSE << >>)

BlockedWarnings ==
    { Entry("TP triggered but blocked", "warning"), Entry("AI SELL blocked", "warning") }

\* C4: a close without force (reason "Take Profit" or "AI Signal") is decided
\* only when net_profit >= min_profit_multiple * total_fees holds for the
\* position's entry price and size and the cycle's price; when the gate is
\* asked and the test fails, the position is kept (no SELL, the open row and
\* current_position unchanged) and a warning naming the block is logged.
C4_FeeGateSoundness ==
    [][\A t \in Traders : MonitorDecides(t) =>
          /\ (pc'[t] = "sell" /\ ~local'[t].force_close)
                => /\ ProfitTestPasses(t)
                   /\ local'[t].reason \in {"Take Profit", "AI Signal"}
          /\ \A an \in Analyses :
                (MonitorStepOn(t, an) /\ GateAsked(t, an) /\ ~ProfitTestPasses(t))
                => /\ pc'[t] = "sleep"
                   /\ current_position'[t] = current_position[t]
                   /\ trades' = trades
                   /\ held' = held
                   /\ logged'.by = t
                   /\ \E i \in 1..Len(logged'.entries) :
                         logged'.entries[i] \in BlockedWarnings]_vars

\* C4 witness: a take-profit SELL is being submitted for a position this
\* trader opened, after its minimum hold time has elapsed.
C4_Witness ==
    \E t \in Traders :
        /\ pc[t] = "sell"
        /\ local[t].reason = "Take Profit"
        /\ ~local[t].force_close
        /\ fee_protection[t].position_entry_time # -1
        /\ ProfitTestPasses(t)

\* C5: when a close without force is decided, at least min_hold_time_minutes
\* have passed since the entry time of the position being closed.
C5_HoldTimeFloor ==
    [][\A t \in Traders :
          (MonitorDecides(t) /\ pc'[t] = "sell" /\ ~local'[t].force_close)
          => now - current_position[t].entry_time >= MIN_HOLD_TIME_MINUTES * 60]_vars

\* C6: within one hour the loop opens at most max_trades_per_hour positions
\* (every run of the model is shorter than an hour, and than a day).
C6_FrequencyCaps ==
    now < HOUR_SECONDS => /\ opens <= MAX_TRADES_PER_HOUR
                          /\ opens <= MAX_TRADES_PER_DAY

\* C7: no start request is accepted (no new AutoTrader and loop task are
\* created) while a loop task that was started and never stopped is alive.
C7_StartWhileRunningRefused ==
    [][auto_trader_instance' # auto_trader_instance
          => \A t \in Traders : TaskAlive(t) => stop_time[t] # -1]_vars

\* C8: a loop task that was running when stop() was called begins no new
\* cycle afterwards.
C8_NoCycleAfterStop ==
    [][\A l \in BotLoops :
          l \in bot_stopped => ~(bot_pc[l] # "analyze" /\ bot_pc'[l] = "analyze")]_vars

\* C9: a loop that is inside a cycle when stop() has been called exits when
\* that cycle completes.
C9_StoppedLoopExitsAfterTick ==
    [][\A t \in Traders :
          (InCycle(t) /\ ~InCycle(t)' /\ ~is_running[t] /\ stop_time[t] # -1)
          => pc'[t] = "done"]_vars

\* an error raised in the cycle of trader t is logged in this step
CycleErrorLogged(t) ==
    /\ InCycle(t)
    /\ logged'.by = t
    /\ logged'.entries = << Entry("Trading cycle error", "error") >>

LastLogged(message) ==
    /\ trader.activity_log # << >>
    /\ trader.activity_log[Len(trader.activity_log)].message = message

C11_StopIdempotent ==
    [][stop =>
         /\ ~trader'.is_running
         /\ trader.is_running =>
               trader'.activity_log =
                  deque_append(trader.activity_log,
                               Stamped("Auto Trading Stopped", "info", appended'))
         /\ (~trader.is_running /\ LastLogged("Auto Trading Stopped")) =>
               trader' = trader]_vars

\* C12: whatever analyze returns has action, confidence, current_price,
\* stop_loss, take_profit, the risk-reward ratio and the position size in USD
\* present and not None, and modules.regime, modules.volume,
\* modules.risk_levels and modules.reversal present.
RequiredFields ==
    {"action", "confidence", "current_price", "stop_loss", "take_profit",
     "risk_reward_ratio", "position_size_usd"}

RequiredModules == {"regime", "volume", "risk_levels", "reversal"}

Populated(r) ==
    /\ RequiredFields \subseteq DOMAIN r
    /\ \A f \in RequiredFields \ {"action"} : r[f] # None
    /\ "modules" \in DOMAIN r
    /\ RequiredModules \subseteq DOMAIN r.modules

C12_AnalyzeTotal ==
    recommendation # << >> => Populated(recommendation[1])

\* C13: once the exchange has filled the SELL of a position whose row the
\* store still shows open, the trader holding that position submits no
\* further order, neither a SELL nor a BUY (stated for the runs in which a
\* single AutoTrader was ever constructed).
SoldUnrecorded(t) ==
    /\ current_position[t].trade_id \in OpenTrades
    /\ trades[current_position[t].trade_id].sold

C13_NoOrderAfterUnrecordedSell ==
    \A t \in Traders :
        (~Restarted /\ SoldUnrecorded(t)) => pc[t] \notin {"sell", "buy"}

\* C14: a step of _open_position in which the BUY order was not filled
\* inserts no Trade row, leaves the fee gate (trade history and
\* position_entry_time) and current_position as they were, so that a
\* current_position that was None stays None, logs the error, and ends the
\* cycle with the loop going on to its sleep.
BuyRefusedStep(t) ==
    /\ pc[t] = "buy"
    /\ pc'[t] # "buy"
    /\ opens' = opens

C14_FailedBuyCreatesNothing ==
    [][\A t \in Traders :
          BuyRefusedStep(t) =>
             /\ trades' = trades
             /\ held' = held
             /\ fee_protection'[t] = fee_protection[t]
             /\ current_position'[t] = current_position[t]
             /\ Logged(t, "Failed to open position", "error")'
             /\ pc'[t] = "sleep"
             /\ is_running'[t] = is_running[t]]_vars

C14_Witness ==
    \E t \in Traders :
        /\ Logged(t, "Failed to open position", "error")
        /\ opens = 0
        /\ trades = << >>
        /\ current_position[t] = NoPosition
        /\ pc[t] = "sleep"

\* C15: a step of _close_position in which the SELL order was not filled
\* leaves the trade store (the row stays 'open'), current_position and the
\* fee gate as they were, logs the error and ends the cycle; and a later
\* cycle whose _check_position finds a position while the store holds the
\* one open row of the position kept finds that same position and goes on
\* to _monitor_position.
SellRefusedStep(t) ==
    /\ pc[t] = "sell"
    /\ pc'[t] # "sell"
    /\ held' = held

PositionFoundStep(t) ==
    /\ pc[t] = "fetch"
    /\ pc'[t] = "monitor"

C15_FailedSellKeepsPosition ==
    /\ [][\A t \in Traders :
             SellRefusedStep(t) =>
                /\ trades' = trades
                /\ current_position'[t] = current_position[t]
                /\ fee_protection'[t] = fee_protection[t]
                /\ Logged(t, "Failed to close position", "error")'
                /\ pc'[t] = "sleep"]_vars
    /\ [][\A t \in Traders :
             (/\ PositionFoundStep(t)
              /\ OpenTrades = {current_position[t].trade_id}) =>
                current_position'[t] = current_position[t]]_vars

\* a SELL was refused (no SELL has ever been filled) and the position is kept
C15_Witness ==
    \E t \in Traders :
        /\ Logged(t, "Failed to close position", "error")
        /\ pc[t] = "sleep"
        /\ held = 1
        /\ opens = 1
        /\ OpenTrades = {current_position[t].trade_id}
        /\ ~trades[current_position[t].trade_id].sold
        /\ fee_protection[t].position_entry_time # -1

\* C16: the step of a cycle whose market data fetch failed (the cycle ends
\* at the fetch, without reaching _check_position) logs an error, leaves
\* every position, the trade store, the exchange and every fee gate as they
\* were, assigns no last_check_time, and leaves the loop running towards
\* its next cycle: is_running unchanged, the task at its sleep of one
\* interval.
FetchFailedStep(t) ==
    /\ pc[t] = "fetch"
    /\ pc'[t] \notin {"fetch", "monitor", "entry"}

C16_FetchFailureFrame ==
    [][\A t \in Traders :
          FetchFailedStep(t) =>
             /\ Logged(t, "Trading cycle error", "error")'
             /\ UNCHANGED << current_position, trades, fee_protection, held, opens >>
             /\ UNCHANGED last_check_time
             /\ is_running'[t] = is_running[t]
             /\ pc'[t] = "sleep"
             /\ wake'[t] = now + interval_seconds]_vars

C16_Witness ==
    \E t \in Traders :
        /\ Logged(t, "Trading cycle error", "error")
        /\ pc[t] = "sleep"
        /\ is_running[t]
        /\ trades = << >>
        /\ opens = 0
        /\ now > 0
        /\ last_check_time[t] < now

\* C17: a cycle whose analysis is HALT submits no order: _find_entry does not
\* go on to a BUY, and _monitor_position, taking the step its decision on the
\* HALT analysis makes, does not go on to a SELL (stated for the runs in which
\* a single AutoTrader was ever constructed).
HaltAnalysis == [action |-> "HALT", confidence |-> 0]

EntryStepOn(t, an) ==
    /\ pc[t] = "entry"
    /\ pc'[t] = IF _entry_decision(fee_protection[t], now, an) = "buy"
                THEN "buy" ELSE "sleep"

C17_HaltSubmitsNoOrder ==
    [][\A t \in Traders :
          ~Restarted =>
             /\ EntryStepOn(t, HaltAnalysis) => pc'[t] # "buy"
             /\ (MonitorDecides(t) /\ MonitorStepOn(t, HaltAnalysis))
                   => pc'[t] # "sell"]_vars

\* C18: execute_order returns no fill for a BUY on a symbol that has a
\* position, for a BUY whose cost with commission exceeds cash, and for a
\* SELL on a symbol that has no position; a call that returns no fill leaves
\* cash, positions and fill_history as they were; a call that returns a
\* fill appends that fill, and nothing else, to fill_history.
C18_RefusedOrdersChangeNothing ==
    [][LET o == executed'.order
           f == fill_for(o, executed'.current_price)
       IN  /\ (o.direction = "BUY" /\ o.symbol \in DOMAIN exchange.positions)
                 => executed'.fill = << >>
           /\ (o.direction = "BUY" /\ trade_value(f) + f.commission > exchange.cash)
                 => executed'.fill = << >>
           /\ (o.direction = "SELL" /\ o.symbol \notin DOMAIN exchange.positions)
                 => executed'.fill = << >>
           /\ executed'.fill = << >> => exchange' = exchange
           /\ executed'.fill # << >> =>
                 exchange'.fill_history = Append(exchange.fill_history, executed'.fill[1])
      ]_vars

\* a BUY for a symbol already held has been refused, after two fills
C18_Witness ==
    /\ executed.order.direction = "BUY"
    /\ executed.order.symbol \in DOMAIN exchange.positions
    /\ executed.fill = << >>
    /\ Len(exchange.fill_history) = 2

\* C19: a filled BUY takes quantity * fill_price + commission off cash and
\* creates a position of the order's quantity; a filled SELL adds
\* quantity * fill_price - commission to cash and removes the position; cash
\* is at all times the initial capital plus these amounts over the fills, so
\* that after a BUY and a SELL of the same quantity of a symbol cash has
\* changed by (exit fill price - entry fill price) * quantity less the two
\* commissions.
RECURSIVE CashFlow(_)
CashFlow(fills) ==
    IF fills = << >> THEN 0
    ELSE LET f == fills[Len(fills)]
         IN  CashFlow(SubSeq(fills, 1, Len(fills) - 1))
             + (IF f.direction = "BUY" THEN -(trade_value(f) + f.commission)
                ELSE trade_value(f) - f.commission)

RoundTrip(fills) ==
    /\ Len(fills) = 2
    /\ fills[1].direction = "BUY"
    /\ fills[2].direction = "SELL"
    /\ fills[1].symbol = fills[2].symbol
    /\ fills[1].quantity = fills[2].quantity

C19_CashAccounting ==
    /\ [](exchange.cash = initial_capital * 10000 * 1000 + CashFlow(exchange.fill_history))
    /\ [](RoundTrip(exchange.fill_history) =>
             LET b == exchange.fill_history[1]
                 x == exchange.fill_history[2]
             IN  exchange.cash - initial_capital * 10000 * 1000
                    = (x.fill_price - b.fill_price) * b.quantity * 1000
                      - (b.commission + x.commission))
    /\ [][executed'.fill # << >> =>
             LET f == executed'.fill[1]
             IN  IF f.direction = "BUY"
                 THEN /\ exchange'.cash = exchange.cash - (trade_value(f) + f.commission)
                      /\ f.symbol \in DOMAIN exchange'.positions
                      /\ exchange'.positions[f.symbol].quantity = f.quantity
                 ELSE /\ exchange'.cash = exchange.cash + trade_value(f) - f.commission
                      /\ f.symbol \notin DOMAIN exchange'.positions]_vars

\* a round trip bought at 10 and sold at 11 has just ended
C19_Witness ==
    /\ RoundTrip(exchange.fill_history)
    /\ exchange.fill_history[1].fill_price < exchange.fill_history[2].fill_price
    /\ exchange.positions = << >>
    /\ executed.fill # << >>
    /\ exchange.cash > initial_capital * 10000 * 1000

\* C20: execute_order fills a SELL only for a symbol whose position holds at
\* least the order's quantity, and the fill takes exactly the order's
\* quantity off the quantity held.
Held(ex, symbol) ==
    IF symbol \in DOMAIN ex.positions THEN ex.positions[symbol].quantity ELSE 0

C20_SellWithinHolding ==
    [][(executed'.fill # << >> /\ executed'.order.direction = "SELL") =>
          LET o == executed'.order
          IN  /\ Held(exchange, o.symbol) >= o.quantity
              /\ Held(exchange', o.symbol) = Held(exchange, o.symbol) - o.quantity]_vars


\* C21: two runs of the backtest over the same data and configuration end
\* with the same equity curve, the same trade list and the same metrics,
\* whatever each run read from outside the data (the multi-timeframe
\* alignment, the sizer's fraction) at each of its calls of analyze.
C21_RunsAgree ==
    \A r \in Runs, q \in Runs :
        engine[r].pc = "done" /\ engine[q].pc = "done"
        => /\ engine[r].portfolio.equity_curve = engine[q].portfolio.equity_curve
           /\ engine[r].portfolio.trades = engine[q].portfolio.trades
           /\ engine[r].metrics = engine[q].metrics

\* both runs are over, a BUY and a SELL were filled, and the last signals of
\* the two runs differ in what analyze read from outside the data
C21_Witness ==
    /\ \A r \in Runs : engine[r].pc = "done"
    /\ Len(engine[1].portfolio.trades) >= 2
    /\ engine[1].metrics # << >>
    /\ engine[1].signal # << >>
    /\ engine[1].signal # engine[2].signal

\* the trade rows are the fills, in order
SameFills(trade_list, fills) ==
    /\ Len(trade_list) = Len(fills)
    /\ \A k \in 1..Len(fills) :
          /\ trade_list[k].symbol = fills[k].symbol
          /\ trade_list[k].direction = fills[k].direction
          /\ trade_list[k].quantity = fills[k].quantity
          /\ trade_list[k].price = fills[k].fill_price
          /\ trade_list[k].commission = fills[k].commission

\* the events of the tick in flight follow from one another
TickInOrder(e) ==
    /\ e.signal # << >> =>
          /\ e.market_event # << >>
          /\ e.signal[1].timestamp = e.market_event[1].timestamp
    /\ e.order # << >> =>
          /\ e.signal # << >>
          /\ e.signal[1].signal_type \in {"BUY", "SELL"}
          /\ e.order[1].direction = e.signal[1].signal_type
          /\ e.order[1].timestamp = e.signal[1].timestamp
    /\ e.fill # << >> =>
          /\ e.order # << >>
          /\ e.fill[1].direction = e.order[1].direction
          /\ e.fill[1].quantity = e.order[1].quantity
          /\ e.fill[1] = e.exchange.fill_history[Len(e.exchange.fill_history)]

\* C22: in every tick of a backtest the signal comes from the tick's market
\* event, the order from a BUY or SELL signal of the tick, the fill from
\* that order; an event of the tick is set only once its predecessor is;
\* no market event has more than one fill; and once the tick has recorded
\* its trade, the portfolio's trade list is the exchange's fill_history.
C22_EventOrder ==
    /\ [](\A r \in Runs :
            LET e == engine[r]
            IN  /\ TickInOrder(e)
                /\ Len(e.exchange.fill_history) <= e.current_index
                /\ \A k \in 1..Len(e.portfolio.trades) :
                      /\ e.portfolio.trades[k].timestamp <= e.current_index
                      /\ k > 1 => e.portfolio.trades[k - 1].timestamp
                                     < e.portfolio.trades[k].timestamp
                /\ IF e.pc = "record"
                   THEN SameFills(Append(e.portfolio.trades,
                                         [symbol |-> e.fill[1].symbol,
                                          direction |-> e.fill[1].direction,
                                          quantity |-> e.fill[1].quantity,
                                          price |-> e.fill[1].fill_price,
                                          commission |-> e.fill[1].commission]),
                                  e.exchange.fill_history)
                   ELSE SameFills(e.portfolio.trades, e.exchange.fill_history))
    /\ [][\A r \in Runs :
            LET e == engine[r]
                f == engine'[r]
            IN  /\ (f.signal # e.signal /\ f.signal # << >>)
                      => e.pc = "signal" /\ f.market_event = e.market_event
                /\ (f.order # e.order /\ f.order # << >>)
                      => e.pc = "order" /\ f.signal = e.signal
                /\ (f.fill # e.fill /\ f.fill # << >>)
                      => e.pc = "execute" /\ f.order = e.order
                /\ Len(f.exchange.fill_history) > Len(e.exchange.fill_history)
                      => /\ e.fill = << >>
                         /\ f.current_index = e.current_index
                         /\ Len(f.exchange.fill_history)
                               = Len(e.exchange.fill_history) + 1]_vars

\* a run has filled a BUY and then a SELL, recorded both, and stands at the
\* equity update of the SELL's tick
C22_Witness ==
    LET e == engine[1]
    IN  /\ e.pc = "equity"
        /\ e.fill # << >>
        /\ e.fill[1].direction = "SELL"
        /\ Len(e.exchange.fill_history) = 2
        /\ Len(e.portfolio.trades) = 2
        /\ e.portfolio.trades[2].timestamp = e.market_event[1].timestamp

\* the step is one call of a wrapper
PortCallStep == port_calls' = port_calls + 1

\* C23: a call made while the port is in cooldown does not reach the
\* exchange; it returns the value the cache holds for its key when it
\* holds one, and fails with the rate-limit error when it holds none.
C23_CooldownServesCache ==
    [][(PortCallStep /\ proxy_now < proxy.cooldown_until)
          => /\ ~fetched'.forwarded
             /\ IF fetched'.key \in DOMAIN proxy.cache
                THEN /\ fetched'.result = "value"
                     /\ fetched'.value = << proxy.cache[fetched'.key].value >>
                ELSE fetched'.result = "rate_limited"]_vars

\* C24: a call made 31 s or more after the exchange's last rate-limit
\* signal, and not answered from an entry within its TTL, is forwarded to
\* the exchange, whatever calls the port received since the signal.
C24_CooldownLastsThirty ==
    [][(/\ PortCallStep
        /\ signalled_at # None
        /\ proxy_now >= signalled_at + COOLDOWN + 1
        /\ _get_cached(proxy.cache, fetched'.key, proxy_now).value = << >>)
          => fetched'.forwarded]_vars

C26_LogIsTailOfAppends ==
    /\ [](LET log == trader.activity_log
          IN  /\ Len(log) <= MaxActivityLog
              /\ Len(log) = (IF appended < MaxActivityLog THEN appended
                             ELSE MaxActivityLog)
              /\ \A k \in 1..Len(log) :
                    log[k].timestamp = appended - Len(log) + k)
    /\ [][appended' # appended =>
            LET log == trader.activity_log
                kept == IF Len(log) = MaxActivityLog THEN Tail(log) ELSE log
            IN  /\ appended' = appended + 1
                /\ Len(trader'.activity_log) = Len(kept) + 1
                /\ SubSeq(trader'.activity_log, 1, Len(kept)) = kept
                /\ trader'.activity_log[Len(kept) + 1].timestamp = appended']_vars

\* the log is full and has dropped its three oldest entries
C26_Witness ==
    /\ appended = MaxActivityLog + 3
    /\ Len(trader.activity_log) = MaxActivityLog
    /\ trader.activity_log[1].timestamp = 4

\* C27: get_activity_log(limit), for a limit of 0 or more, returns the last
\* min(limit, size) entries of the log in the log's order, so never more
\* than limit entries, and leaves the log as it is.
C27_SnapshotWithinLimit ==
    [][snapshot' # snapshot =>
          LET log == trader.activity_log
              limit == snapshot'[1].limit
              entries == snapshot'[1].entries
              m == IF limit < Len(log) THEN limit ELSE Len(log)
          IN  /\ Len(entries) <= limit
              /\ entries = SubSeq(log, Len(log) - m + 1, Len(log))
              /\ trader' = trader]_vars

\* C28: while a BUY position is open, update_stop never returns a
\* stop_loss_price below the one it returned before, whatever the prices,
\* the ATR and the swing low of the successive calls (the returns of the
\* except branch set aside).
C28_StopNeverLowers ==
    [][(/\ stop_updates' = stop_updates + 1
        /\ stop_info # << >>
        /\ stop_info[1].method_used # "FALLBACK"
        /\ stop_info'[1].method_used # "FALLBACK")
          => stop_info'[1].stop_loss_price >= stop_info[1].stop_loss_price]_vars

\* C29: for a positive balance, whatever the statistics and the configured
\* max_risk_per_trade, the position_size_usd returned is at most
\* max_risk_per_trade * account_balance and at least 0.5% of account_balance.
C29_SizeWithinCapAndFloor ==
    (sizing.result # << >> /\ sizing.arguments.account_balance > 0)
    => LET size == sizing.result[1].position_size_usd
           balance == Frac(sizing.arguments.account_balance, 1)
       IN  /\ FLe(size, FMul(Frac(sizing.max_risk_per_trade, 1000), balance))
           /\ FLe(FMul(Frac(5, 1000), balance), size)

\* the call of the step: its order as placed, and whether the code's two
\* tests say the engine cannot pay for it
PlacedOrder == placed'[2]
CannotPay ==
    \/ /\ PlacedOrder.side = "BUY"
       /\ PlacedOrder.quantity * PlacedOrder.price * (10000 + slippage_bps) * 1000
              + PlacedOrder.quantity * PlacedOrder.price * (10000 + slippage_bps)
          > paper.balance.usdt - paper.balance.locked_usdt
    \/ /\ PlacedOrder.side = "SELL"
       /\ PlacedOrder.quantity > paper.balance.base_asset - paper.balance.locked_base

\* C30: a BUY whose cost plus fee exceeds the available USDT, and a SELL
\* whose quantity exceeds the base balance, is rejected: the call returns
\* success false with the order REJECTED, and nothing of the engine changes
\* except that the rejected order is appended to orders.
C30_RejectedOrderChangesNothing ==
    [][(Len(paper'.orders) > Len(paper.orders) /\ CannotPay) =>
           /\ placed'[1] = FALSE
           /\ PlacedOrder.status = "REJECTED"
           /\ paper'.orders = Append(paper.orders, PlacedOrder)
           /\ paper'.balance = paper.balance
           /\ paper'.current_position = paper.current_position
           /\ paper'.trade_history = paper.trade_history
           /\ paper'.total_fees_paid = paper.total_fees_paid
           /\ paper' = [paper EXCEPT !.orders = paper'.orders]]_vars

\* both rejections have happened on an engine that holds a position: a BUY
\* was filled, then a BUY and a SELL were rejected
C30_Witness ==
    /\ Len(paper.orders) = 3
    /\ paper.orders[1].status = "FILLED"
    /\ {paper.orders[2].side, paper.orders[3].side} = {"BUY", "SELL"}
    /\ paper.orders[2].status = "REJECTED"
    /\ paper.orders[3].status = "REJECTED"
    /\ placed[1] = FALSE
    /\ paper.current_position # << >>
    /\ paper.total_fees_paid > 0

\* C31: a TradeResult is recorded only by a step that closes the position
\* fully (nothing of the bought quantity is left), with net_pnl = gross_pnl
\* - entry fee - exit fee of that position's own entry; a filled BUY leaves
\* current_position set; and a held position becomes None exactly when the
\* whole bought quantity has been sold.
C31_TradeOnFullClosure ==
    [][Len(paper'.orders) > Len(paper.orders) =>
          LET order == placed'[2]
              holding == paper.current_position # << >>
              result_added == Len(paper'.trade_history) > Len(paper.trade_history)
              all_sold == paper'.balance.base_asset = 0
          IN  /\ result_added =>
                    LET pos == paper.current_position[1]
                        result == paper'.trade_history[Len(paper'.trade_history)]
                    IN  /\ holding /\ order.side = "SELL" /\ order.status = "FILLED"
                        /\ all_sold
                        /\ order.quantity = pos.quantity
                        /\ result.gross_pnl =
                               (order.filled_price - pos.entry_price) * pos.quantity * 1000
                        /\ result.net_pnl = result.gross_pnl - pos.fees_paid - order.fee
              /\ (order.side = "BUY" /\ order.status = "FILLED")
                     => paper'.current_position # << >>
              /\ holding => (paper'.current_position = << >> <=> all_sold)]_vars

\* the TradeResults of the engine with a positive net_pnl
PaperWins == {i \in 1..Len(paper.trade_history) : paper.trade_history[i].net_pnl > 0}

\* C32: after any sequence of paper orders total_trades = winning_trades +
\* losing_trades = len(trade_history), a TradeResult is counted once, as a
\* win iff its net_pnl > 0, and the reported win_rate is winning_trades /
\* total_trades * 100.
C32_CountersMatchHistory ==
    LET summary == get_performance_summary(paper)
    IN  /\ paper.total_trades = paper.winning_trades + paper.losing_trades
        /\ paper.total_trades = Len(paper.trade_history)
        /\ paper.winning_trades = Cardinality(PaperWins)
        /\ paper.losing_trades = Len(paper.trade_history) - Cardinality(PaperWins)
        /\ summary.total_trades = paper.total_trades
        /\ paper.total_trades > 0 =>
               summary.win_rate.n * paper.total_trades
                   = paper.winning_trades * 100 * summary.win_rate.d

\* two round trips are closed, one a win and one a loss
C32_Witness ==
    /\ Len(paper.trade_history) = 2
    /\ paper.winning_trades = 1
    /\ paper.losing_trades = 1
    /\ get_performance_summary(paper).win_rate = Frac(100, 2)

\* the step in which _open_position submits its market BUY (the order is
\* filled or refused in the same step)
BuySubmitted(t) ==
    /\ pc[t] = "buy"
    /\ pc'[t] # "buy"

\* C33: a market BUY is submitted only in a tick whose _check_position
\* reported no open position, whose _find_entry went past the on-chain veto
\* to the analysis (the veto return ends the tick before it), whose fee gate
\* allows an open and whose analysis is BUY with confidence >=
\* min_confidence; the quantity bought, as the Trade row records it, is
\* budget * position_size_ratio / price.
C33_BuyOnlyWhenAllowed ==
    [][\A t \in Traders :
          /\ (pc[t] # "buy" /\ pc'[t] = "buy") =>
                /\ pc[t] = "entry"
                /\ Logged(t, "Opening Position", "info")'
                /\ local'[t].analysis # << >>
          /\ BuySubmitted(t) =>
                /\ local[t].has_position \in {"none", "failed"}
                /\ can_open_position(fee_protection[t], now)
                /\ local[t].analysis # << >>
                /\ local[t].analysis[1].action = "BUY"
                /\ local[t].analysis[1].confidence >= MIN_CONFIDENCE
                /\ Len(trades') > Len(trades) =>
                      LET quantity == trades'[Len(trades')].amount
                      IN  quantity.num * 100 * local[t].price
                              = BUDGET * POSITION_SIZE_RATIO_PCT * quantity.den]_vars

\* a BUY was submitted and filled after a lookup that found the store empty
C33_Witness ==
    \E t \in Traders :
        /\ Logged(t, "Position Opened", "success")
        /\ Len(trades) = 1
        /\ trades[1].status = "open"
        /\ opens = 1
        /\ pc[t] = "sleep"

\* C37: a tick whose open-position lookup failed (_check_position caught a
\* trade-store error) submits no BUY order (stated for the runs in which a
\* single AutoTrader was ever constructed).
C37_FailedLookupSubmitsNoBuy ==
    [][\A t \in Traders :
          (~Restarted /\ BuySubmitted(t)) => local[t].has_position # "failed"]_vars

\* dict.get(key, default) on a dict given as a record
dict_get(d, key, default) == IF key \in DOMAIN d THEN d[key] ELSE default

\* the tp_pct and sl_pct _monitor_position compares pnl_pct against, in per
\* mille, for the analysis it was returned
monitor_thresholds(analysis) ==
    [tp_pct |-> dict_get(analysis, "take_profit_percent", TP_PCT_DEFAULT),
     sl_pct |-> dict_get(analysis, "stop_loss_percent", SL_PCT_DEFAULT)]

\* the tp_pct and sl_pct of the backtest strategy, likewise
strategy_thresholds(analysis) ==
    [tp_pct |-> dict_get(analysis, "take_profit_percent", TP_PERCENT),
     sl_pct |-> dict_get(analysis, "stop_loss_percent", SL_PERCENT)]

\* C34: the take-profit and stop-loss percentages the live loop and the
\* backtest strategy compare pnl_pct against are the take_profit_pct and
\* stop_loss_pct of the risk levels of the analysis they were returned.
C34_ThresholdsAreTheComputedOnes ==
    recommendation # << >> =>
        LET analysis == recommendation[1]
            risk_levels == analysis.modules.risk_levels
        IN  /\ monitor_thresholds(analysis).tp_pct = risk_levels.take_profit_pct
            /\ monitor_thresholds(analysis).sl_pct = risk_levels.stop_loss_pct
            /\ strategy_thresholds(analysis).tp_pct = risk_levels.take_profit_pct
            /\ strategy_thresholds(analysis).sl_pct = risk_levels.stop_loss_pct

\* the action the staged vetoes give an input that raises nowhere
StagedAction(i) ==
    IF i.regime = "SIDEWAYS" /\ i.patterns = 0 THEN "HALT"
    ELSE IF i.volume_score < 35 THEN "HOLD"
    ELSE IF /\ i.patterns = 0
            /\ ~(i.regime = "TRENDING_UP" /\ i.volume_score >= 50)
            /\ ~(i.regime = "TRENDING_DOWN" /\ i.volume_score <= 50)
    THEN "HOLD"
    ELSE IF i.regime = "TRENDING_UP" THEN "BUY"
    ELSE IF i.regime = "TRENDING_DOWN" THEN "SELL"
    ELSE "HOLD"

\* an exception is raised before the stages (no row in the frame, the regime
\* module raises), or after them by the risk levels or the statistics
RaisedBeforeStages(i) == i.current_price = 0 \/ i.raises = "regime"
Vetoed(i) ==
    \/ i.regime = "SIDEWAYS" /\ i.patterns = 0
    \/ i.volume_score < 35
    \/ /\ i.patterns = 0
       /\ ~(i.regime = "TRENDING_UP" /\ i.volume_score >= 50)
       /\ ~(i.regime = "TRENDING_DOWN" /\ i.volume_score <= 50)
RaisedAfterStages(i) ==
    /\ ~Vetoed(i)
    /\ i.risk = "raises" \/ i.raises = "performance"

\* C35: the action of analyze follows the staged vetoes in their order, and
\* is HALT when an exception is raised; so BUY is returned only for
\* TRENDING_UP with a volume score >= 0.35, and the confidence returned
\* (no confidence_override) lies in [0, 0.95].
C35_ActionFollowsStages ==
    recommendation # << >> =>
        LET i == analysis_input
            r == recommendation[1]
        IN  /\ r.action = IF RaisedBeforeStages(i) \/ RaisedAfterStages(i)
                          THEN "HALT" ELSE StagedAction(i)
            /\ r.action = "BUY" => (i.regime = "TRENDING_UP" /\ i.volume_score >= 35)
            /\ r.confidence >= 0
            /\ r.confidence <= 95

\* a BUY by trend following: TRENDING_UP with no pattern and volume >= 0.5
C35_Witness ==
    /\ recommendation # << >>
    /\ recommendation[1].action = "BUY"
    /\ analysis_input.patterns = 0
    /\ analysis_input.volume_score >= 50
    /\ analysis_input.mtf = "STRONG_BULLISH"
    /\ analysis_input.volume_score = 100
    /\ recommendation[1].confidence = 95

\* the PnL of the round trip that the SELL recorded as trade k of a run
\* closes: its entry is the BUY recorded before it
RoundTripPnl(r, k) ==
    LET trades_ == engine[r].portfolio.trades
        exit == trades_[k]
        entry == trades_[k - 1]
    IN  (exit.price - entry.price) * exit.quantity * 1000
            - entry.commission - exit.commission

\* C36: every SELL fill is recorded with the PnL of its round trip, (sell
\* fill price - entry fill price) * quantity - fees, and every BUY fill
\* with none; so the win_rate_percent of a finished run is the share of
\* its round trips whose PnL is positive.
C36_SellCarriesRoundTripPnl ==
    \A r \in Runs :
        LET trades_ == engine[r].portfolio.trades
            sells == { k \in 1..Len(trades_) : trades_[k].direction = "SELL" }
        IN  /\ \A k \in 1..Len(trades_) :
                  IF k \in sells
                  THEN trades_[k].pnl = RoundTripPnl(r, k)
                  ELSE trades_[k].pnl = None
            /\ (engine[r].pc = "done" /\ engine[r].metrics # << >> /\ sells # {}) =>
                  /\ engine[r].metrics[1].completed_rounds = Cardinality(sells)
                  /\ engine[r].metrics[1].win_rate_percent =
                         (Cardinality({ k \in sells : RoundTripPnl(r, k) > 0 }) * 100)
                             \div Cardinality(sells)

\* C38: at the tick that processes candle i (rows in ascending timestamp
\* order, counted here from 1) the bars handed to the strategy are exactly
\* the candles max(1, i - n + 1) .. i in order, n the number of bars asked
\* for: at most n bars, the last one the current candle, none later than i.
C38_BarsAreTheLastWindow ==
    [][\A r \in Runs :
          (engine[r].pc = "signal" /\ engine'[r].pc # "signal") =>
              LET i == engine[r].market_event[1].timestamp
                  bars == engine'[r].historical_bars
                  first == Max2(1, i - MaxWindow + 1)
              IN  /\ Len(bars) = i - first + 1
                  /\ Len(bars) <= MaxWindow
                  /\ \A k \in 1..Len(bars) :
                        /\ bars[k].index = first + k - 1
                        /\ bars[k].bar = data[first + k - 1]
                        /\ bars[k].index <= i
                  /\ bars[Len(bars)].index = i]_vars

\* the third candle of three was processed: the window left the first out
C38_Witness ==
    \E r \in Runs :
        /\ Len(data) = 3
        /\ engine[r].pc = "equity"
        /\ engine[r].market_event[1].timestamp = 3
        /\ Len(engine[r].historical_bars) = 2
        /\ engine[r].historical_bars[1].index = 2

\* C39: at any current price at or above the min_profitable_price that
\* get_breakeven_price reports, can_close_position with force_close false
\* and the hold time satisfied allows the close, for every entry price,
\* position size and fee setting.
C39_MinProfitablePriceCloses ==
    quoted # << >> =>
        (quoted[1].current_price >= quoted[1].info.min_profitable_price
            => quoted[1].can_close)
====
